---- MODULE Spec2Model ----
(***************************************************************************)
(* Trade lifecycle manager (src/trade_manager.py) and trigger layer of the *)
(* detection engine (src/ict_strategy.py) as state machines.               *)
(*                                                                         *)
(* Units.  Prices are integers in thousandths (100000 = 100.000).  Times   *)
(* are minutes.  pnl_pct is kept in thousandths of a percent               *)
(* (1500 = +1.5%).  The price grid is chosen so that every product with    *)
(* 1.001, 0.998, 0.50 ... that the code computes is an integer.            *)
(***************************************************************************)
EXTENDS Integers, Sequences, FiniteSets, TLC

VARIABLES
    signals,      \* persistence: the signals table, row id = index
    watchlist,    \* persistence: the watchlist table, row id = index
    trade_state,  \* TradeManager._trade_state: signal id -> state dict
    now,          \* datetime.now(), minutes
    candle_ts,    \* timestamp of the newest closed 5m candle
    last_eff,     \* signal id -> effective_sl computed by the latest tick (0: none yet)
    last_call,    \* the handler that ran last, with its inputs and its result
    trig,         \* trigger layer: inputs and emission of the last engine call
    opt,          \* self-optimiser: terminal trades, Parameter Store, log, rollback state
    strategy      \* ICTStrategy.params while it is loaded, and a commit in progress

vars == <<signals, watchlist, trade_state, now, candle_ts, last_eff, last_call, trig,
          opt, strategy>>


\* ------------------------------------------------------------------ bounds
MaxSignals == 2          \* rows the signals table may hold
MaxWatch == 2            \* rows the watchlist table may hold
MaxSymbols == 1          \* symbols the scan reports
MaxTime == 20            \* the clock stops here
CapSymbols == 4          \* symbols of the scan that fills the portfolio
CapRows == 4             \* rows of either table in that scan
CapWatching == 1         \* and the items it lets wait at a time
MaxAge == 540          \* the clock of a single trade stops here
MaxWatching == 2       \* items the scan lets wait at a time
MaxCandles == 2          \* 5m candles that may close

\* ------------------------------------------------- configuration (config.py)
\* Stop-loss distances are in thousandths of the entry (0.012 -> 12).
min_sl_distance_pct == 12
max_sl_distance_pct == 30
max_concurrent_trades == 3
max_same_direction_trades == 2
signal_cooldown_minutes == 20
MAX_TRADE_DURATION_HOURS == 6
min_rr_ratio == 2
HistoryLimit == 30
\* config.py:119 sets WATCH_CONFIRM_CANDLES = 12; the manager only compares
\* candles_watched with the value stored on the item, so the model scales it.
WatchConfirmCandles == 1

\* Symbols are named in the order in which the scan first reports them.
SymbolOrder == <<"A", "B", "C", "D", "E">>
Symbols == {SymbolOrder[k] : k \in DOMAIN SymbolOrder}
Dirs == {"LONG", "SHORT"}
NoTime == 0 - 1

Max2(a, b) == IF a >= b THEN a ELSE b
Min2(a, b) == IF a <= b THEN a ELSE b
Abs(a) == IF a >= 0 THEN a ELSE -a

IsOpen(s) == s.status \in {"ACTIVE", "WAITING"}
IsTerminal(s) == s.status \in {"WON", "LOST", "CANCELLED"}

\* ---------------------------------------------------- persistence (database)
GetActiveSignals(sigs) == {i \in DOMAIN sigs : IsOpen(sigs[i])}

GetActiveTradeCount(sigs) == Cardinality(GetActiveSignals(sigs))

GetSignalHistory(sigs, n) == {i \in DOMAIN sigs : i > Len(sigs) - n}

AddSignal(sigs, symbol, direction, entry, sl, tp, status, mode, t) ==
    Append(sigs, [symbol |-> symbol, direction |-> direction,
                  entry_price |-> entry, stop_loss |-> sl, take_profit |-> tp,
                  status |-> status, entry_mode |-> mode,
                  created_at |-> t, entry_time |-> NoTime, close_time |-> NoTime,
                  close_price |-> 0, pnl_pct |-> 0])

ActivateSignal(s, t) == [s EXCEPT !.status = "ACTIVE", !.entry_time = t]

UpdateSignalStatus(s, status, price, pnl, t) ==
    [s EXCEPT !.status = status, !.close_price = price, !.pnl_pct = pnl, !.close_time = t]

UpdateSignalSl(s, sl) == [s EXCEPT !.stop_loss = sl]

GetWatchingItems(wl) == {i \in DOMAIN wl : wl[i].status = "WATCHING"}

\* add_to_watchlist returns the new row id, or 0 when a WATCHING row for the
\* same (symbol, direction) exists.
WatchDuplicate(wl, symbol, direction) ==
    \E i \in GetWatchingItems(wl) :
        wl[i].symbol = symbol /\ wl[i].direction = direction

AddToWatchlist(wl, symbol, direction, entry, sl, tp, complete, score, max_watch) ==
    IF WatchDuplicate(wl, symbol, direction) THEN wl
    ELSE Append(wl, [symbol |-> symbol, direction |-> direction,
                     potential_entry |-> entry, potential_sl |-> sl,
                     potential_tp |-> tp, complete |-> complete,
                     initial_score |-> score, candles_watched |-> 0,
                     max_watch_candles |-> max_watch, last_5m_candle_ts |-> NoTime,
                     status |-> "WATCHING"])

UpdateWatchlistItem(wl, id, candles, ts) ==
    [wl EXCEPT ![id].candles_watched = candles, ![id].last_5m_candle_ts = ts]

PromoteWatchlistItem(wl, id) == [wl EXCEPT ![id].status = "PROMOTED"]

ExpireWatchlistItem(wl, id) == [wl EXCEPT ![id].status = "EXPIRED"]

\* ------------------------------------------------------------- _open_trade
Rejected(sigs, reason) == [sigs |-> sigs, status |-> "REJECTED", reason |-> reason, id |-> 0]

\* The cooldown loop: a terminal row of the symbol in the recent history that
\* closed less than signal_cooldown_minutes ago.
CloseTimeOf(s) == IF s.close_time # NoTime THEN s.close_time ELSE s.created_at

InCooldownNever(sigs, symbol, t) == FALSE

InCooldown(sigs, symbol, t) ==
    \E i \in GetSignalHistory(sigs, HistoryLimit) :
        /\ sigs[i].symbol = symbol
        /\ IsTerminal(sigs[i])
        /\ t - CloseTimeOf(sigs[i]) < signal_cooldown_minutes

\* The gates of _open_trade, in the order of the code.
AtConcurrentLimitLoose(sigs) == GetActiveTradeCount(sigs) > max_concurrent_trades

AtConcurrentLimit(sigs) == GetActiveTradeCount(sigs) >= max_concurrent_trades

SymbolIsOpenNever(sigs, symbol) == FALSE

SymbolIsOpen(sigs, symbol) == \E i \in GetActiveSignals(sigs) : sigs[i].symbol = symbol

SameDirectionCount(sigs, direction) ==
    Cardinality({i \in GetActiveSignals(sigs) : sigs[i].direction = direction})

AtDirectionLimit(sigs, direction) ==
    SameDirectionCount(sigs, direction) >= max_same_direction_trades

\* activate_signal(signal_id) on the row add_signal has just returned.
ActivatedFirst(added, id, t) == [added EXCEPT ![1] = ActivateSignal(added[1], t)]

Activated(added, id, t) == [added EXCEPT ![id] = ActivateSignal(added[id], t)]

OpenTrade(sigs, signal, t) ==
    LET mode == IF signal.entry_mode = "PENDING" THEN "MARKET" ELSE signal.entry_mode
        initial_status == IF mode = "LIMIT" THEN "WAITING" ELSE "ACTIVE"
        added == AddSignal(sigs, signal.symbol, signal.direction, signal.entry,
                           signal.sl, signal.tp, initial_status, mode, t)
        id == Len(added)
    IN  IF AtConcurrentLimit(sigs) THEN Rejected(sigs, "max_concurrent")
        ELSE IF SymbolIsOpen(sigs, signal.symbol) THEN Rejected(sigs, "active_exists")
        ELSE IF AtDirectionLimit(sigs, signal.direction)
            THEN Rejected(sigs, "max_same_direction")
        ELSE IF InCooldown(sigs, signal.symbol, t) THEN Rejected(sigs, "cooldown")
        ELSE IF initial_status = "ACTIVE"
            THEN [sigs |-> Activated(added, id, t),
                  status |-> "OPENED", reason |-> "", id |-> id]
        ELSE [sigs |-> added, status |-> "LIMIT_PLACED", reason |-> "", id |-> id]

\* ------------------------------------------- breakeven / trailing stop-loss
\* The state dict of one trade; 0 stands for None.
DefaultState == [breakeven_moved |-> FALSE, trailing_sl |-> 0, breakeven_sl |-> 0,
                 early_protect_sl |-> 0, early_protect |-> FALSE]

\* "En iyi SL seviyesini kullan": the tail of _manage_long_sl / _manage_short_sl.
BestLongSlForgets(state, eff) == eff

BestLongSl(state, eff) ==
    LET e1 == IF state.trailing_sl # 0 THEN Max2(eff, state.trailing_sl) ELSE eff
        e2 == IF state.breakeven_sl # 0 THEN Max2(e1, state.breakeven_sl) ELSE e1
    IN  IF state.early_protect_sl # 0 THEN Max2(e2, state.early_protect_sl) ELSE e2

BestShortSl(state, eff) ==
    LET e1 == IF state.trailing_sl # 0 THEN Min2(eff, state.trailing_sl) ELSE eff
        e2 == IF state.breakeven_sl # 0 THEN Min2(e1, state.breakeven_sl) ELSE e1
    IN  IF state.early_protect_sl # 0 THEN Min2(e2, state.early_protect_sl) ELSE e2

ManageLongSl(entry_price, current_price, stop_loss, take_profit, state, effective_sl) ==
    LET total_distance == take_profit - entry_price
        current_progress == current_price - entry_price
        trailing == entry_price + current_progress \div 2
        be_sl == (entry_price * 1001) \div 1000
        early_sl == (entry_price * 998) \div 1000
        same == [state |-> state, eff |-> effective_sl]
        step ==
            IF ~(total_distance > 0 /\ current_progress > 0) THEN same
            ELSE IF current_progress * 100 >= 60 * total_distance THEN
                IF state.trailing_sl = 0 \/ trailing > state.trailing_sl
                THEN [state |-> [state EXCEPT !.trailing_sl = trailing],
                      eff |-> Max2(effective_sl, trailing)]
                ELSE same
            ELSE IF current_progress * 100 >= 40 * total_distance /\ ~state.breakeven_moved THEN
                [state |-> [state EXCEPT !.breakeven_moved = TRUE, !.breakeven_sl = be_sl],
                 eff |-> be_sl]
            ELSE IF current_progress * 100 >= 25 * total_distance /\ ~state.early_protect THEN
                IF early_sl > stop_loss
                THEN [state |-> [state EXCEPT !.early_protect = TRUE,
                                              !.early_protect_sl = early_sl],
                      eff |-> early_sl]
                ELSE [state |-> [state EXCEPT !.early_protect = TRUE], eff |-> effective_sl]
            ELSE same
    IN  [state |-> step.state, eff |-> BestLongSl(step.state, step.eff)]

ManageShortSl(entry_price, current_price, stop_loss, take_profit, state, effective_sl) ==
    LET total_distance == entry_price - take_profit
        current_progress == entry_price - current_price
        trailing == entry_price - current_progress \div 2
        be_sl == (entry_price * 999) \div 1000
        early_sl == (entry_price * 1002) \div 1000
        same == [state |-> state, eff |-> effective_sl]
        step ==
            IF ~(total_distance > 0 /\ current_progress > 0) THEN same
            ELSE IF current_progress * 100 >= 60 * total_distance THEN
                IF state.trailing_sl = 0 \/ trailing < state.trailing_sl
                THEN [state |-> [state EXCEPT !.trailing_sl = trailing],
                      eff |-> Min2(effective_sl, trailing)]
                ELSE same
            ELSE IF current_progress * 100 >= 40 * total_distance /\ ~state.breakeven_moved THEN
                [state |-> [state EXCEPT !.breakeven_moved = TRUE, !.breakeven_sl = be_sl],
                 eff |-> be_sl]
            ELSE IF current_progress * 100 >= 25 * total_distance /\ ~state.early_protect THEN
                IF early_sl < stop_loss
                THEN [state |-> [state EXCEPT !.early_protect = TRUE,
                                              !.early_protect_sl = early_sl],
                      eff |-> early_sl]
                ELSE [state |-> [state EXCEPT !.early_protect = TRUE], eff |-> effective_sl]
            ELSE same
    IN  [state |-> step.state, eff |-> BestShortSl(step.state, step.eff)]

\* pnl_pct in thousandths of a percent.
PnlPct(direction, entry_price, price) ==
    IF direction = "LONG" THEN ((price - entry_price) * 100000) \div entry_price
    ELSE ((entry_price - price) * 100000) \div entry_price

\* The pnl recorded on a stop-loss close: the slippage clamp.
SlClosePnl(direction, entry_price, price, effective_sl) ==
    LET raw_pnl == PnlPct(direction, entry_price, price)
        max_sl_loss == PnlPct(direction, entry_price, effective_sl)
    IN  IF raw_pnl < 0 /\ raw_pnl < max_sl_loss - 500 THEN max_sl_loss - 500 ELSE raw_pnl

WinOrLoss(pnl) == IF pnl > 0 THEN "WON" ELSE "LOST"

\* ------------------------------------------------------ _check_active_signal
\* "DB'ye yaz (restart korumasi)": when the tick writes effective_sl back.
ShouldPersistSlAlways(state) == TRUE

ShouldPersistSl(state) == state.breakeven_moved \/ state.trailing_sl # 0

\* One ACTIVE row s with its state dict (has: the id is a key of _trade_state).
\* Result: the row, whether the id is a key afterwards, the dict, the
\* effective_sl computed (0: the tick returned before computing one).
\* "MAX TRADE DURATION": trade_hours > MAX_TRADE_DURATION_HOURS.
EntryTimeOf(s) == IF s.entry_time # NoTime THEN s.entry_time ELSE s.created_at

AgeExceededDays(s, t) == t - EntryTimeOf(s) > MAX_TRADE_DURATION_HOURS * 60 * 24

AgeExceeded(s, t) == t - EntryTimeOf(s) > MAX_TRADE_DURATION_HOURS * 60

CheckActiveSignal(s, has, st0, price, t) ==
    LET state == IF has THEN st0 ELSE DefaultState
        gone(row) == [row |-> row, has |-> FALSE, state |-> DefaultState, eff |-> 0]
        age_pnl == PnlPct(s.direction, s.entry_price, price)
        structurally_valid ==
            /\ ~(s.direction = "LONG" /\ s.take_profit <= s.stop_loss)
            /\ ~(s.direction = "SHORT" /\ s.take_profit >= s.stop_loss)
        inverted ==
            \/ /\ s.direction = "LONG" /\ ~state.breakeven_moved
               /\ (s.stop_loss >= s.entry_price \/ s.take_profit <= s.entry_price)
            \/ /\ s.direction = "SHORT" /\ ~state.breakeven_moved
               /\ (s.stop_loss <= s.entry_price \/ s.take_profit >= s.entry_price)
        m == IF s.direction = "LONG"
             THEN ManageLongSl(s.entry_price, price, s.stop_loss, s.take_profit,
                               state, s.stop_loss)
             ELSE ManageShortSl(s.entry_price, price, s.stop_loss, s.take_profit,
                                state, s.stop_loss)
        tp_hit == IF s.direction = "LONG" THEN price >= s.take_profit
                  ELSE price <= s.take_profit
        sl_hit == IF s.direction = "LONG" THEN price <= m.eff ELSE price >= m.eff
        sl_pnl == SlClosePnl(s.direction, s.entry_price, price, m.eff)
        row1 == IF tp_hit THEN UpdateSignalStatus(s, "WON", price, age_pnl, t)
                ELSE IF sl_hit THEN UpdateSignalStatus(s, WinOrLoss(sl_pnl), price, sl_pnl, t)
                ELSE s
        \* "State kaydet" and "DB'ye yaz" run after the terminal branches too.
        row2 == IF ShouldPersistSl(m.state) THEN UpdateSignalSl(row1, m.eff) ELSE row1
    IN  IF AgeExceeded(s, t)
            THEN gone(UpdateSignalStatus(s, WinOrLoss(age_pnl), price, age_pnl, t))
        ELSE IF ~structurally_valid THEN gone(UpdateSignalStatus(s, "CANCELLED", price, 0, t))
        ELSE IF inverted THEN gone(UpdateSignalStatus(s, "CANCELLED", price, 0, t))
        ELSE [row |-> row2, has |-> TRUE, state |-> m.state, eff |-> m.eff]

\* ----------------------------------------------------- _check_waiting_signal
\* expired: elapsed_hours > LIMIT_ORDER_EXPIRY_HOURS, a name config.py does not
\* define; its outcome is an input of the tick.
CheckWaitingSignal(s, price, t, expired) ==
    LET entry_buffer == (s.entry_price * 5) \div 10000
        sl_breach == IF s.direction = "LONG" THEN price <= s.stop_loss
                     ELSE price >= s.stop_loss
        tp_passed == /\ s.take_profit # 0
                     /\ IF s.direction = "LONG" THEN price >= s.take_profit
                        ELSE price <= s.take_profit
        reached == IF s.direction = "LONG" THEN price <= s.entry_price + entry_buffer
                   ELSE price >= s.entry_price - entry_buffer
    IN  IF expired /\ t > s.created_at THEN UpdateSignalStatus(s, "CANCELLED", price, 0, t)
        ELSE IF sl_breach THEN UpdateSignalStatus(s, "CANCELLED", price, 0, t)
        ELSE IF tp_passed THEN UpdateSignalStatus(s, "CANCELLED", price, 0, t)
        ELSE IF reached THEN ActivateSignal(s, t)
        ELSE s

\* -------------------------------------------------- _restore_trade_state
RestoredBreakeven(s) ==
    /\ s.entry_price # 0 /\ s.stop_loss # 0
    /\ \/ /\ s.direction = "LONG" /\ s.stop_loss >= s.entry_price
          /\ s.take_profit # 0 /\ s.take_profit > s.entry_price
       \/ /\ s.direction = "SHORT" /\ s.stop_loss <= s.entry_price
          /\ s.take_profit # 0 /\ s.take_profit < s.entry_price
          /\ s.stop_loss > s.take_profit

RestoreTradeState(sigs) ==
    [i \in {j \in GetActiveSignals(sigs) : RestoredBreakeven(sigs[j])} |->
        [breakeven_moved |-> TRUE, trailing_sl |-> sigs[i].stop_loss,
         breakeven_sl |-> sigs[i].stop_loss, early_protect_sl |-> 0,
         early_protect |-> FALSE]]

\* _restore_trade_state run on a manager whose _trade_state is ts: the keys it
\* rebuilds are overwritten, the others stay.
RestoreInto(ts, sigs) ==
    LET restored == RestoreTradeState(sigs)
    IN  [i \in DOMAIN ts \cup DOMAIN restored |->
            IF i \in DOMAIN restored THEN restored[i] ELSE ts[i]]

\* The signal table after _restore_trade_state: it only reads.
RestoreWritesStops(sigs) ==
    [i \in DOMAIN sigs |->
        IF i \in DOMAIN RestoreTradeState(sigs)
        THEN UpdateSignalSl(sigs[i], sigs[i].entry_price) ELSE sigs[i]]

RestoreWrites(sigs) == sigs

\* --------------------------------------------------------------- inputs
\* Levels of an engine emission, one template per direction: the stop-loss
\* 1.2% from the entry, the take-profit 4% from it.
Levels(direction) ==
    IF direction = "LONG" THEN [entry |-> 100000, sl |-> 98800, tp |-> 104000]
    ELSE [entry |-> 100000, sl |-> 101200, tp |-> 96000]

\* What the caller hands to process_signal.  keyed: the dict carries its levels
\* under "entry"/"sl"/"tp" (or "potential_*"), the keys the manager reads;
\* generate_signal of ict_strategy.py names them "entry_price"/"stop_loss"/
\* "take_profit", and the manager then reads None (0 here).
Emissions == [action : {"SIGNAL", "WATCH"}, symbol : Symbols, direction : Dirs,
              keyed : {TRUE}]

\* Ticker prices for a LONG trade (a SHORT trade gets the mirror image about
\* the entry): below the stop with slippage, at the stop, between entry and
\* breakeven, 25% / 40% / 60% / 75% of the way to the target, the target.
FinePrices == {98000, 98800, 99900, 100050, 101000, 101400, 101600, 102400, 103000, 104000}
CoarsePrices == {98000, 100050, 104000}
PricesFor(direction, grid) ==
    IF direction = "LONG" THEN grid ELSE {200000 - p : p \in grid}

\* The newest 5m candle and the 4h close against its 20-bar mean, as
\* _validate_completed_setup reads them; the result of generate_signal.
CalmCandle == [low |-> 99500, high |-> 100500]
WideCandle == [low |-> 98500, high |-> 101500]
WatchInputs ==
    {[data |-> d, candle |-> CalmCandle, htf |-> "flat", engine |-> "none",
      edir |-> "LONG", keyed |-> TRUE] : d \in {"empty", "mtf_none"}}
    \cup [data : {"ok"}, candle : {CalmCandle}, htf : {"flat", "below", "above"},
          engine : {"none"}, edir : {"LONG"}, keyed : {TRUE}]
    \cup [data : {"ok"}, candle : {WideCandle}, htf : {"flat"},
          engine : {"none"}, edir : {"LONG"}, keyed : {TRUE}]
    \cup [data : {"ok"}, candle : {CalmCandle}, htf : {"flat"},
          engine : {"WATCH", "SIGNAL"}, edir : Dirs, keyed : BOOLEAN]

\* -------------------------------------------------- _validate_completed_setup
ValidateCompletedSetup(item, in) ==
    /\ item.potential_sl # 0
    /\ IF item.direction = "LONG" THEN ~(in.candle.low <= item.potential_sl)
       ELSE ~(in.candle.high >= item.potential_sl)
    /\ ~(item.direction = "LONG" /\ in.htf = "below")
    /\ ~(item.direction = "SHORT" /\ in.htf = "above")

\* -------------------------------------------------------- process_signal
\* Result: the watchlist and what the call returned.
ProcessSignalResult(wl, sigs, em) ==
    LET lv == Levels(em.direction)
        score == IF em.action = "SIGNAL" THEN 100 ELSE 60
        max_watch == IF em.action = "SIGNAL" THEN WatchConfirmCandles
                     ELSE WatchConfirmCandles * 3
        added == AddToWatchlist(wl, em.symbol, em.direction,
                                IF em.keyed THEN lv.entry ELSE 0,
                                IF em.keyed THEN lv.sl ELSE 0,
                                IF em.keyed THEN lv.tp ELSE 0,
                                em.action = "SIGNAL", score, max_watch)
    IN  IF \E i \in GetActiveSignals(sigs) : sigs[i].symbol = em.symbol
            THEN [wl |-> wl, result |-> "REJECTED"]
        ELSE IF added = wl THEN [wl |-> wl, result |-> "NONE"]
        ELSE [wl |-> added, result |-> "WATCHING"]

\* --------------------------------------------------------- check_watchlist
\* The loop body for one WATCHING item i whose symbol's data is in.
\* Result: both tables, what happened to the item, what _open_trade returned
\* (for a REJECTED, the gate that rejected).
\* "Ayni mum": the newest 5m candle is the one the item saw last.
SameCandleNever(item, ts) == FALSE

SameCandle(item, ts) == ts = item.last_5m_candle_ts

CheckWatchlistItem(wl, sigs, i, in, ts, t) ==
    LET item == wl[i]
        candles_watched == item.candles_watched + 1
        lv == Levels(in.edir)
        gates_complete == in.engine \in {"SIGNAL", "WATCH"}
        completed == [wl EXCEPT
            ![i].complete = TRUE,
            ![i].potential_entry = IF in.keyed THEN lv.entry ELSE item.potential_entry,
            ![i].potential_sl = IF in.keyed THEN lv.sl ELSE item.potential_sl,
            ![i].potential_tp = IF in.keyed THEN lv.tp ELSE item.potential_tp]
        wl1 == IF item.complete THEN wl ELSE completed
        engine_signal == ~item.complete /\ in.engine = "SIGNAL"
        trade_signal ==
            IF engine_signal
            THEN [symbol |-> item.symbol, direction |-> in.edir, entry |-> lv.entry,
                  sl |-> lv.sl, tp |-> lv.tp, entry_mode |-> "MARKET"]
            ELSE [symbol |-> item.symbol, direction |-> item.direction,
                  entry |-> item.potential_entry, sl |-> item.potential_sl,
                  tp |-> item.potential_tp, entry_mode |-> "LIMIT"]
        opened == OpenTrade(sigs, trade_signal, t)
        out(w, g, kind, result) == [wl |-> w, sigs |-> g, kind |-> kind, result |-> result]
        answer == IF opened.status = "REJECTED" THEN opened.reason ELSE opened.status
    IN  IF in.data = "empty" THEN out(wl, sigs, "no_data", "")
        ELSE IF SameCandle(item, ts) THEN out(wl, sigs, "same_candle", "")
        ELSE IF in.data = "mtf_none"
            THEN out(UpdateWatchlistItem(wl, i, candles_watched, ts), sigs, "counted", "")
        ELSE IF ~ValidateCompletedSetup(item, in)
            THEN out(ExpireWatchlistItem(wl, i), sigs, "invalidated", "")
        ELSE IF ~item.complete /\ ~gates_complete
            THEN IF candles_watched >= item.max_watch_candles
                 THEN out(ExpireWatchlistItem(wl, i), sigs, "timeout", "")
                 ELSE out(UpdateWatchlistItem(wl, i, candles_watched, ts), sigs, "counted", "")
        ELSE IF candles_watched >= item.max_watch_candles
            THEN IF engine_signal /\ ~in.keyed
                 \* signal["entry"] raises KeyError after the item was promoted
                 THEN out(PromoteWatchlistItem(wl1, i), sigs, "promoted", "KeyError")
                 ELSE out(PromoteWatchlistItem(wl1, i), opened.sigs, "promoted", answer)
        ELSE out(UpdateWatchlistItem(wl1, i, candles_watched, ts), sigs, "counted", "")

\* ----------------------------------------------------------------- actions
Call(op, id, sym, dir, kind, price, result) ==
    [op |-> op, id |-> id, sym |-> sym, dir |-> dir, kind |-> kind,
     price |-> price, result |-> result]

Env(op) == Call(op, 0, "", "", "", 0, "")

SeenSymbols(wl) == {wl[i].symbol : i \in DOMAIN wl}

ScanSymbols(wl, n) ==
    {SymbolOrder[k] : k \in {j \in DOMAIN SymbolOrder :
                                j <= n /\ j <= Cardinality(SeenSymbols(wl)) + 1}}

\* The scan loop hands one engine emission to process_signal.
Scan(n, actions, rows, waiting) ==
    \E em \in Emissions :
        LET r == ProcessSignalResult(watchlist, signals, em)
        IN  /\ Len(watchlist) < rows
            /\ Cardinality(GetWatchingItems(watchlist)) < waiting
            /\ em.symbol \in ScanSymbols(watchlist, n)
            /\ em.action \in actions
            /\ watchlist' = r.wl
            /\ last_call' = Call("process_signal", Len(r.wl), em.symbol, em.direction,
                                 em.action, 0, r.result)
            /\ UNCHANGED <<signals, trade_state, now, candle_ts, last_eff, trig, opt, strategy>>

ProcessSignal == Scan(MaxSymbols, {"SIGNAL", "WATCH"}, MaxWatch, MaxWatching)

OpenTradeStateRegistered(state, sigs) ==
    [j \in DOMAIN state \cup {k \in DOMAIN sigs : sigs[k].status = "ACTIVE"} |->
        IF j \in DOMAIN state THEN state[j] ELSE DefaultState]

\* _trade_state after check_watchlist and the _open_trade it calls: neither
\* registers a state for the signal it opens.
OpenTradeState(state, sigs) == state

\* A check_watchlist tick in which the data fetcher answers for item i; the
\* other items' 5m data is empty, which the loop skips.
WatchTick(rows) ==
    \E i \in GetWatchingItems(watchlist), in \in WatchInputs :
        LET r == CheckWatchlistItem(watchlist, signals, i, in, candle_ts, now)
        IN  /\ Len(r.sigs) <= rows
            \* generate_signal is only called for an incomplete setup
            /\ watchlist[i].complete => in.engine = "none"
            /\ watchlist' = r.wl
            /\ signals' = r.sigs
            /\ last_eff' = IF Len(r.sigs) > Len(signals) THEN Append(last_eff, 0) ELSE last_eff
            /\ last_call' = Call("check_watchlist", i, watchlist[i].symbol,
                                 watchlist[i].direction, r.kind, 0, r.result)
            /\ trade_state' = OpenTradeState(trade_state, r.sigs)
            /\ UNCHANGED <<now, candle_ts, trig, opt, strategy>>

CheckWatchlist == WatchTick(MaxSignals)

\* The loop body of check_open_trades for one row with a ticker: WAITING rows
\* go to _check_waiting_signal, ACTIVE rows to _check_active_signal.
CheckSignal(s, has, st0, price, t, expired) ==
    LET r == CheckActiveSignal(s, has, st0, price, t)
    IN  IF s.status = "WAITING"
            THEN [row |-> CheckWaitingSignal(s, price, t, expired), has |-> has,
                  state |-> st0, eff |-> 0]
        ELSE IF s.status = "ACTIVE" THEN r
        ELSE [row |-> s, has |-> has, state |-> st0, eff |-> 0]

\* A check_open_trades tick in which the ticker answers for signal i; the
\* other open signals have no ticker, which the loop skips.
Tick(grid, expiries) ==
    \E i \in GetActiveSignals(signals), expired \in expiries :
        \E price \in PricesFor(signals[i].direction, grid) :
            LET s == signals[i]
                has == i \in DOMAIN trade_state
                r == CheckSignal(s, has, IF has THEN trade_state[i] ELSE DefaultState,
                                 price, now, expired)
            IN  /\ s.status = "ACTIVE" => ~expired
                /\ signals' = [signals EXCEPT ![i] = r.row]
                /\ trade_state' =
                       IF r.has
                       THEN [j \in DOMAIN trade_state \cup {i} |->
                                IF j = i THEN r.state ELSE trade_state[j]]
                       ELSE [j \in DOMAIN trade_state \ {i} |-> trade_state[j]]
                /\ last_eff' = IF r.eff # 0 THEN [last_eff EXCEPT ![i] = r.eff] ELSE last_eff
                /\ last_call' = Call("check_open_trades", i, s.symbol, s.direction,
                                     s.status, price, r.row.status)
                /\ UNCHANGED <<watchlist, now, candle_ts, trig, opt, strategy>>

CheckOpenTrades == Tick(CoarsePrices, BOOLEAN)

\* A 5m candle closes.
NewCandle ==
    /\ candle_ts < MaxCandles
    /\ candle_ts' = candle_ts + 1
    /\ last_call' = Env("new_candle")
    /\ UNCHANGED <<signals, watchlist, trade_state, now, last_eff, trig, opt, strategy>>

\* Time passes.
Elapse(dt, limit) ==
    /\ now + dt <= limit
    /\ now' = now + dt
    /\ last_call' = Env("advance")
    /\ UNCHANGED <<signals, watchlist, trade_state, candle_ts, last_eff, trig, opt, strategy>>

\* Twenty minutes, the length of the cooldown.
Advance == Elapse(20, MaxTime)

NoTrigger == [called |-> FALSE]

\* ------------------------------------------ self-optimiser (self_optimizer.py)
\* Parameter values are in millionths: 0.55 is 550000, 0.001 is 1000. An
\* integer-typed parameter (swing_lookback) is in units.
ICT_PARAMS ==
    [displacement_min_body_ratio |-> 550000,
     displacement_min_size_pct |-> 6000,
     fvg_min_size_pct |-> 1000,
     liquidity_equal_tolerance |-> 1000,
     poi_max_distance_pct |-> 10000,
     swing_lookback |-> 5,
     default_sl_pct |-> 20000]

Registry(min_b, max_b, group, integer) ==
    [min_b |-> min_b, max_b |-> max_b, group |-> group, integer |-> integer]

PARAM_REGISTRY ==
    [displacement_min_body_ratio |-> Registry(400000, 750000, "trigger", FALSE),
     displacement_min_size_pct |-> Registry(2000, 10000, "trigger", FALSE),
     fvg_min_size_pct |-> Registry(300, 4000, "poi", FALSE),
     liquidity_equal_tolerance |-> Registry(300, 3000, "poi", FALSE),
     poi_max_distance_pct |-> Registry(5000, 20000, "poi", FALSE),
     swing_lookback |-> Registry(3, 8, "structural", TRUE),
     default_sl_pct |-> Registry(8000, 25000, "risk", FALSE)]

ParamNames == DOMAIN PARAM_REGISTRY

\* _last_optimization_wr is None
NoWr == [won |-> 0, total |-> 0]

\* SelfOptimizer.__init__ over a database that holds won WON, lost LOST and
\* cancelled CANCELLED signals and the given Parameter Store. prev_params and
\* result are not fields of the program: the store as the latest completed
\* run found it, and what the latest run returned.
SelfOptimizer(won, lost, cancelled, params) ==
    [won |-> won, lost |-> lost, cancelled |-> cancelled,
     params |-> params, log |-> <<>>,
     last_trade_count |-> 0,
     last_optimization_wr |-> NoWr,
     last_optimization_changes |-> <<>>,
     prev_params |-> params,
     result |-> [status |-> "", kind |-> "", changes |-> <<>>]]

NoOptimizer == SelfOptimizer(0, 0, 0, ICT_PARAMS)

\* ICTStrategy.__init__ over the given Parameter Store: params as
\* _load_params left it. to_load, pending and consistent are not fields of
\* the program: the names a running _load_params has still to read, the
\* changes a running _commit_changes has still to write, and the stores
\* that stood between two commits.
ICTStrategy(params) ==
    [params |-> params, to_load |-> <<>>, pending |-> <<>>, consistent |-> {params}]

NoStrategy == ICTStrategy(ICT_PARAMS)

Init ==
    /\ signals = <<>>
    /\ watchlist = <<>>
    /\ trade_state = RestoreTradeState(<<>>)
    /\ now = 0
    /\ candle_ts = 0
    /\ last_eff = <<>>
    /\ last_call = Env("init")
    /\ trig = NoTrigger
    /\ opt = NoOptimizer
    /\ strategy = NoStrategy

Next ==
    \/ ProcessSignal
    \/ CheckWatchlist
    \/ CheckOpenTrades
    \/ NewCandle
    \/ Advance

Spec == Init /\ [][Next]_vars

\* ------------------------------------------------- filling the portfolio
\* The scan reports fired setups (SIGNAL) on CapSymbols symbols within one
\* 5m candle and one minute: enough rows to reach both caps of _open_trade.
ProcessSignalCaps == Scan(CapSymbols, {"SIGNAL"}, CapRows, CapWatching)

CheckWatchlistCaps == WatchTick(CapRows)

\* The ticker is at the stop-loss or just above the entry.
CheckOpenTradesCaps == Tick({98000, 100050}, {FALSE})

NextCaps ==
    \/ ProcessSignalCaps
    \/ CheckWatchlistCaps
    \/ CheckOpenTradesCaps

SpecCaps == Init /\ [][NextCaps]_vars

\* ------------------------------------------------------ one trade's life
\* The state in which a WATCH item of symbol A has been watched for all its
\* candles and promoted on a SIGNAL of the engine: one ACTIVE MARKET trade.
QuietCandle(engine, direction) ==
    [data |-> "ok", candle |-> CalmCandle, htf |-> "flat", engine |-> engine,
     edir |-> direction, keyed |-> TRUE]

\* The WATCH item of symbol A after k closed candles without a trigger.
RECURSIVE Watched(_, _)
Watched(direction, k) ==
    IF k = 0
    THEN [wl |-> ProcessSignalResult(<<>>, <<>>, [action |-> "WATCH", symbol |-> "A",
                     direction |-> direction, keyed |-> TRUE]).wl,
          sigs |-> <<>>]
    ELSE LET before == Watched(direction, k - 1)
         IN  CheckWatchlistItem(before.wl, before.sigs, 1,
                                QuietCandle("none", direction), k - 1, 0)

LastCandle(direction) == Watched(direction, 0).wl[1].max_watch_candles - 1

OneTrade(direction) ==
    LET before == Watched(direction, LastCandle(direction))
    IN  CheckWatchlistItem(before.wl, before.sigs, 1,
                           QuietCandle("SIGNAL", direction), LastCandle(direction), 0)

InitStops ==
    \E direction \in Dirs :
        /\ signals = OneTrade(direction).sigs
        /\ watchlist = OneTrade(direction).wl
        /\ trade_state = RestoreTradeState(<<>>)
        /\ now = 0
        /\ candle_ts = LastCandle(direction)
        /\ last_eff = <<0>>
        /\ last_call = Call("check_watchlist", 1, "A", direction, "promoted", 0, "OPENED")
        /\ trig = NoTrigger
        /\ opt = NoOptimizer
        /\ strategy = NoStrategy

CheckOpenTradesFine == Tick(FinePrices, {FALSE})

\* Three hours pass, or three hours and a minute: two of them make exactly
\* MAX_TRADE_DURATION_HOURS, or a minute more.
AdvanceHours == Elapse(180, MaxAge) \/ Elapse(181, MaxAge)

\* The process restarts: TradeManager.__init__ over the persisted tables.
Restart ==
    /\ trade_state' = RestoreInto(<<>>, signals)
    /\ signals' = RestoreWrites(signals)
    /\ last_eff' = [i \in DOMAIN last_eff |-> 0]
    /\ last_call' = Env("restart")
    /\ UNCHANGED <<watchlist, now, candle_ts, trig, opt, strategy>>

NextStops ==
    \/ CheckOpenTradesFine
    \/ AdvanceHours
    \/ Restart

SpecStops == InitStops /\ [][NextStops]_vars

\* The scheduler keeps calling check_open_trades and the clock keeps running.
LiveStops ==
    SpecStops /\ WF_vars(AdvanceHours) /\ WF_vars(CheckOpenTradesFine)

\* ------------------------------------------------- _open_trade on its own
\* Levels a caller may hand to _open_trade, for a LONG (a SHORT gets the
\* mirror image about the entry): sound ones, a zero entry, stop or target,
\* a stop 0.5% and 4% from the entry, and a target beyond the stop.
LevelsHanded ==
    {[entry |-> 100000, sl |-> 98800, tp |-> 104000],
     [entry |-> 0, sl |-> 98800, tp |-> 104000],
     [entry |-> 100000, sl |-> 0, tp |-> 104000],
     [entry |-> 100000, sl |-> 98800, tp |-> 0],
     [entry |-> 100000, sl |-> 99500, tp |-> 104000],
     [entry |-> 100000, sl |-> 96000, tp |-> 104000],
     [entry |-> 100000, sl |-> 98800, tp |-> 98000]}

Mirror(direction, level) ==
    IF direction = "LONG" \/ level = 0 THEN level ELSE 200000 - level

OpenTradeCall ==
    \E symbol \in Symbols, direction \in Dirs, lv \in LevelsHanded :
        LET opened == OpenTrade(signals,
                                [symbol |-> symbol, direction |-> direction,
                                 entry |-> Mirror(direction, lv.entry),
                                 sl |-> Mirror(direction, lv.sl),
                                 tp |-> Mirror(direction, lv.tp),
                                 entry_mode |-> "MARKET"], now)
        IN  /\ Len(signals) < MaxSignals
            /\ signals' = opened.sigs
            /\ last_eff' = IF Len(opened.sigs) > Len(signals) THEN Append(last_eff, 0)
                           ELSE last_eff
            /\ last_call' = Call("_open_trade", opened.id, symbol, direction, "SIGNAL",
                                 0, opened.status)
            /\ UNCHANGED <<watchlist, trade_state, now, candle_ts, trig, opt, strategy>>

NextOpen == OpenTradeCall

SpecOpen == Init /\ [][NextOpen]_vars

\* ------------------------------------------- trigger layer (ict_strategy.py)
\* Prices are in thousandths; a product with a decimal factor is floored to
\* the thousandth.
NoDetection == [found |-> FALSE, price |-> 0, candles_ago |-> 0]
Detected(price, candles_ago) ==
    [found |-> TRUE, price |-> price, candles_ago |-> candles_ago]

NoEmission ==
    [action |-> "NONE", direction |-> "NONE", entry |-> 0, sl |-> 0, tp |-> 0,
     trigger_type |-> "NONE"]

Emission(action, direction, entry, sl, tp, trigger_type) ==
    [action |-> action, direction |-> direction, entry |-> entry, sl |-> sl,
     tp |-> tp, trigger_type |-> trigger_type]

\* The stop is moved only when its absolute distance from the reference price
\* leaves [min_sl_distance_pct, max_sl_distance_pct]; the side of the stop is
\* not looked at.
ClampSl(bias, ref, sl) ==
    LET dist == 1000 * Abs(ref - sl)
    IN  IF dist < min_sl_distance_pct * ref
        THEN IF bias = "LONG" THEN (ref * (1000 - min_sl_distance_pct)) \div 1000
             ELSE (ref * (1000 + min_sl_distance_pct)) \div 1000
        ELSE IF dist > max_sl_distance_pct * ref
        THEN IF bias = "LONG" THEN (ref * (1000 - max_sl_distance_pct)) \div 1000
             ELSE (ref * (1000 + max_sl_distance_pct)) \div 1000
        ELSE sl

\* reward / risk >= min_rr_ratio, with 0 for a zero risk.
RrAtLeast(entry, sl, tp) ==
    /\ Abs(entry - sl) > 0
    /\ Abs(tp - entry) >= min_rr_ratio * Abs(entry - sl)

\* round(reward / risk, 2) >= min_rr_ratio
RoundedRrAtLeast(entry, sl, tp) ==
    /\ Abs(entry - sl) > 0
    /\ 1000 * Abs(tp - entry) >= (1000 * min_rr_ratio - 5) * Abs(entry - sl)

RoundNumberStep(price) ==
    IF price >= 50000000 THEN 1000000
    ELSE IF price >= 10000000 THEN 500000
    ELSE IF price >= 1000000 THEN 100000
    ELSE IF price >= 100000 THEN 50000
    ELSE IF price >= 10000 THEN 5000
    ELSE IF price >= 1000 THEN 500
    ELSE 50

\* The obstacles on the way to the target: the unmitigated opposite 1H block
\* or gap strictly between entry and target (0 when there is none), and the
\* round numbers between 20% and 90% of the way.
Obstacles(bias, entry, tp, block, current_price) ==
    LET step == RoundNumberStep(current_price)
        dist == Abs(tp - entry)
        first == IF bias = "LONG" THEN (entry \div step) * step + step
                 ELSE (entry \div step) * step
        rounds == {first + k * step * (IF bias = "LONG" THEN 1 ELSE 0 - 1) :
                       k \in 0 .. (dist \div step)}
        between(p) == IF bias = "LONG" THEN p < tp ELSE p > tp
        blocks == IF block = 0 THEN {}
                  ELSE IF bias = "LONG" THEN {p \in {block} : entry < p /\ p < tp}
                  ELSE {p \in {block} : tp < p /\ p < entry}
    IN  blocks \cup
        {p \in rounds : /\ between(p)
                        /\ 20 * dist < 100 * Abs(p - entry)
                        /\ 100 * Abs(p - entry) < 90 * dist}

\* adjusted_tp of _scan_obstacles: the target is pulled in front of the first
\* obstacle when that lies within the first 30% (rounded to one decimal) of
\* the way.
ScanObstacles(bias, entry, tp, block, current_price) ==
    LET dist == Abs(tp - entry)
        obs == Obstacles(bias, entry, tp, block, current_price)
        first == CHOOSE p \in obs : \A q \in obs : Abs(p - entry) <= Abs(q - entry)
    IN  IF entry = 0 \/ tp = 0 \/ dist = 0 \/ obs = {} THEN tp
        ELSE IF 10000 * Abs(first - entry) < 2995 * dist
        THEN IF bias = "LONG" THEN first - (dist * 2) \div 100
             ELSE first + (dist * 2) \div 100
        ELSE tp

\* One candidate zone of find_poi_zones with its levels; target is
\* nearest_bsl (LONG) or nearest_ssl (SHORT), 0 when the pool list is empty.
FindPoi(bias, zone, target, block, current_price) ==
    LET entry == (zone.high + zone.low) \div 2
        height == zone.high - zone.low
        sl0 == IF bias = "LONG" THEN zone.low - (height * 2) \div 10
               ELSE zone.high + (height * 2) \div 10
        tp0 == IF bias = "LONG"
               THEN IF target > entry THEN target ELSE (entry * 1020) \div 1000
               ELSE IF target > 0 /\ target < entry THEN target
                    ELSE (entry * 980) \div 1000
        sl == ClampSl(bias, entry, sl0)
        tp == ScanObstacles(bias, entry, tp0, block, current_price)
    IN  [bias |-> bias, entry |-> entry, sl |-> sl, tp |-> tp,
         rr_ok |-> RoundedRrAtLeast(entry, sl, tp),
         zone_high |-> zone.high, zone_low |-> zone.low,
         near |-> 100000 * Abs(current_price - entry) < 1005 * current_price]

\* check_trigger: det holds what _detect_sweep, _detect_mss and
\* _detect_displacement report on the candles; proximity is in thousandths.
CheckTrigger(bias, poi, current_price, det, proximity) ==
    LET near == IF bias = "LONG"
                THEN 1000 * current_price <= poi.zone_high * (1000 + proximity)
                ELSE 1000 * current_price >= poi.zone_low * (1000 - proximity)
        behind(p) == IF bias = "LONG" THEN (p * 998) \div 1000
                     ELSE (p * 1002) \div 1000
        sweep_sl == ClampSl(bias, current_price, behind(det.sweep.price))
        mss_sl == ClampSl(bias, current_price, poi.sl)
        disp_sl == ClampSl(bias, current_price, behind(det.displacement.price))
    IN  IF ~near THEN NoEmission
        ELSE IF /\ det.sweep.found
                /\ det.sweep.candles_ago <= 6
                /\ RrAtLeast(current_price, sweep_sl, poi.tp)
        THEN Emission("SIGNAL", bias, current_price, sweep_sl, poi.tp,
                      "SWEEP_REJECTION")
        ELSE IF /\ det.mss.found
                /\ det.mss.candles_ago <= 4
                /\ RrAtLeast(current_price, mss_sl, poi.tp)
        THEN Emission("SIGNAL", bias, current_price, mss_sl, poi.tp, "MSS")
        ELSE IF /\ det.displacement.found
                /\ det.displacement.candles_ago <= 4
                /\ RrAtLeast(current_price, disp_sl, poi.tp)
        THEN Emission("SIGNAL", bias, current_price, disp_sl, poi.tp,
                      "DISPLACEMENT")
        ELSE NoEmission

\* Layers 2 and 3 of generate_signal, for a narrative that gave a bias.
GenerateSignalResult(bias, poi, current_price, det, overextended, blocked) ==
    LET trigger == CheckTrigger(bias, poi, current_price, det, 10)
    IN  IF ~poi.rr_ok \/ blocked THEN NoEmission
        ELSE IF trigger.action = "SIGNAL"
        THEN IF overextended THEN [trigger EXCEPT !.action = "WATCH"]
             ELSE trigger
        ELSE IF poi.near
        THEN Emission("WATCH", bias, poi.entry, poi.sl, poi.tp, "NONE")
        ELSE NoEmission

\* check_trigger_for_watch on a stored POI: volatility filter, invalidation on
\* two closes beyond the zone, the 15m trigger, then the 5m trigger when the
\* 5m candles touched the zone and the last of them is not volatile.
PoiInvalidated(poi, prev_close, current_price) ==
    IF poi.bias = "LONG"
        THEN /\ 1000 * prev_close < poi.zone_low * 988
             /\ 1000 * current_price < poi.zone_low * 988
    ELSE /\ 1000 * prev_close > poi.zone_high * 1012
         /\ 1000 * current_price > poi.zone_high * 1012

CheckTriggerForWatchResult(poi, prev_close, current_price, det, volatile, five) ==
    LET bias == poi.bias
        broken == PoiInvalidated(poi, prev_close, current_price)
        trigger == CheckTrigger(bias, poi, current_price, det, 25)
        trigger_5m == CheckTrigger(bias, poi, five.price, five.det, 30)
    IN  IF volatile THEN NoEmission
        ELSE IF broken THEN [NoEmission EXCEPT !.action = "INVALIDATED"]
        ELSE IF trigger.action = "SIGNAL" THEN trigger
        ELSE IF five.usable THEN trigger_5m
        ELSE NoEmission

\* ---- candles the engine can be handed
TriggerZones == {[low |-> 99000, high |-> 101000], [low |-> 99600, high |-> 100400]}
TriggerPrices == {99500, 100000, 100800}
WatchPrices == {97500, 99500, 100800, 102500}
ExtremePrices == {98500, 99000, 101000, 101500}
Targets(bias) == IF bias = "LONG" THEN {0, 104000} ELSE {0, 96000}
Blocks(bias) == IF bias = "LONG" THEN {0, 100500} ELSE {0, 99500}

\* The swept candle closed back over the level it wicked through, so a sweep
\* on the last candle lies beyond the current price; older candles and the
\* displacement candles (never the last one) are not tied to it.
Detections(bias, current_price) ==
    {[sweep |-> s, mss |-> m, displacement |-> d] :
        s \in {NoDetection} \cup
              {Detected(p, 0) : p \in {q \in ExtremePrices :
                    IF bias = "LONG" THEN q < current_price ELSE q > current_price}} \cup
              {Detected(p, a) : p \in ExtremePrices, a \in {3, 7}},
        m \in {NoDetection, Detected(0, 0), Detected(0, 5)},
        d \in {NoDetection} \cup {Detected(p, a) : p \in {99000, 101000}, a \in {1, 5}}}

FewDetections(bias, current_price) ==
    {det \in Detections(bias, current_price) :
        /\ det.sweep.found => det.sweep.candles_ago = 3
        /\ det.mss.found => det.mss.candles_ago = 0
        /\ det.displacement.found => det.displacement.candles_ago = 1
        /\ det.displacement.found => ~det.sweep.found}

NoPoi == [bias |-> "NONE"]

EngineCall(op, bias, current_price, poi, det, out, stored) ==
    [called |-> TRUE, op |-> op, bias |-> bias, current_price |-> current_price,
     poi |-> poi, det |-> det, out |-> out, stored |-> stored]

\* The candles of one scan, before the engine has looked at them.
Candles(bias, zone, current_price, target, block, det, overextended, blocked) ==
    [called |-> FALSE, bias |-> bias, zone |-> zone,
     current_price |-> current_price, target |-> target, block |-> block,
     det |-> det, overextended |-> overextended, blocked |-> blocked]

\* A zone is a candidate only on the near side of the price, and the pools
\* are those beyond the price.
InitTrigger ==
    /\ signals = <<>>
    /\ watchlist = <<>>
    /\ trade_state = RestoreTradeState(<<>>)
    /\ now = 0
    /\ candle_ts = 0
    /\ last_eff = <<>>
    /\ last_call = Env("init")
    /\ opt = NoOptimizer
    /\ strategy = NoStrategy
    /\ \E bias \in Dirs, zone \in TriggerZones, current_price \in TriggerPrices,
          overextended \in BOOLEAN, blocked \in BOOLEAN :
        /\ IF bias = "LONG" THEN zone.low < current_price
           ELSE zone.high > current_price
        /\ \E target \in Targets(bias), block \in Blocks(bias),
              det \in Detections(bias, current_price) :
            trig = Candles(bias, zone, current_price, target, block, det,
                           overextended, blocked)

GenerateSignal ==
    /\ ~trig.called
    /\ LET poi == FindPoi(trig.bias, trig.zone, trig.target, trig.block,
                          trig.current_price)
           out == GenerateSignalResult(trig.bias, poi, trig.current_price,
                                       trig.det, trig.overextended, trig.blocked)
       IN  trig' = EngineCall("generate_signal", trig.bias, trig.current_price,
                              poi, trig.det, out,
                              IF out.action = "WATCH" THEN poi ELSE NoPoi)
    /\ UNCHANGED <<signals, watchlist, trade_state, now, candle_ts, last_eff, last_call,
                 opt, strategy>>

CheckTriggerForWatch ==
    /\ trig.called
    /\ trig.stored # NoPoi
    /\ \E prev_close \in {97500, 102500}, current_price \in WatchPrices,
          volatile \in BOOLEAN, usable \in BOOLEAN :
        \E det \in FewDetections(trig.stored.bias, current_price),
           det5 \in {d \in FewDetections(trig.stored.bias, 100000) :
                        ~d.sweep.found /\ ~d.displacement.found} :
            LET five == [usable |-> usable, price |-> 100000, det |-> det5]
                out == CheckTriggerForWatchResult(trig.stored, prev_close,
                           current_price, det, volatile, five)
            IN  trig' = EngineCall("check_trigger_for_watch", trig.stored.bias,
                                   current_price, trig.stored, det, out,
                                   IF out.action = "NONE" THEN trig.stored ELSE NoPoi)
    /\ UNCHANGED <<signals, watchlist, trade_state, now, candle_ts, last_eff, last_call,
                 opt, strategy>>

NextTrigger ==
    \/ GenerateSignal
    \/ CheckTriggerForWatch

SpecTrigger == InitTrigger /\ [][NextTrigger]_vars

\* --------------------------------------- the watchlist loop on a broken POI
\* The emission that put symbol A on the watchlist: a sweep 2.5% beyond the
\* price, three candles ago, at a narrow zone around the price; the stop lies
\* behind the sweep, the target at the pool.
SweptPoi(bias) ==
    FindPoi(bias, [low |-> 99600, high |-> 100400],
            IF bias = "LONG" THEN 106000 ELSE 94000, 0, 100000)

SweptEmission(bias, overextended) ==
    GenerateSignalResult(bias, SweptPoi(bias), 100000,
                         [sweep |-> Detected(IF bias = "LONG" THEN 97500 ELSE 102500, 3),
                          mss |-> NoDetection, displacement |-> NoDetection],
                         overextended, FALSE)

\* The 15m frame of a tick: its last two closes, next to the POI of the item.
Frame15m(poi, prev_close, current_price) ==
    [called |-> FALSE, poi |-> poi, prev_close |-> prev_close,
     current_price |-> current_price]

\* process_signal has put the emission on the watchlist.
InitInvalidation ==
    /\ signals = <<>>
    /\ trade_state = RestoreTradeState(<<>>)
    /\ now = 0
    /\ candle_ts = 0
    /\ last_eff = <<>>
    /\ last_call = Env("init")
    /\ opt = NoOptimizer
    /\ strategy = NoStrategy
    /\ \E bias \in Dirs, overextended \in BOOLEAN :
        LET em == SweptEmission(bias, overextended)
        IN  /\ watchlist = AddToWatchlist(<<>>, "A", bias, em.entry, em.sl, em.tp,
                                          em.action = "SIGNAL",
                                          IF em.action = "SIGNAL" THEN 100 ELSE 60,
                                          IF em.action = "SIGNAL" THEN WatchConfirmCandles
                                          ELSE WatchConfirmCandles * 3)
            /\ trig = Frame15m(SweptPoi(bias), 0, 0)

\* The closes of the 15m frame: at the entry, and 2% beyond it on the adverse
\* side: beyond the zone by more than 1.2%, short of the stop.
Closes15m(bias) == {100000, IF bias = "LONG" THEN 98000 ELSE 102000}

\* The newest 5m candle, around the last close.
CandleAt(close) == [low |-> close - 200, high |-> close + 200]

\* A check_watchlist tick for item i with the frames the data fetcher returns.
WatchTickFrames ==
    \E i \in GetWatchingItems(watchlist), htf \in {"flat", "below", "above"},
       engine \in {"none", "SIGNAL"} :
        \E prev_close \in Closes15m(watchlist[i].direction),
           current_price \in Closes15m(watchlist[i].direction) :
            LET in == [data |-> "ok", candle |-> CandleAt(current_price), htf |-> htf,
                       engine |-> engine, edir |-> watchlist[i].direction,
                       keyed |-> TRUE]
                r == CheckWatchlistItem(watchlist, signals, i, in, candle_ts, now)
            IN  /\ watchlist[i].complete => engine = "none"
                /\ watchlist' = r.wl
                /\ signals' = r.sigs
                /\ last_eff' = IF Len(r.sigs) > Len(signals) THEN Append(last_eff, 0)
                               ELSE last_eff
                /\ last_call' = Call("check_watchlist", i, watchlist[i].symbol,
                                     watchlist[i].direction, r.kind, 0, r.result)
                /\ trade_state' = OpenTradeState(trade_state, r.sigs)
                /\ trig' = Frame15m(trig.poi, prev_close, current_price)
                /\ UNCHANGED <<now, candle_ts, opt, strategy>>

NextInvalidation ==
    \/ WatchTickFrames
    \/ NewCandle

SpecInvalidation == InitInvalidation /\ [][NextInvalidation]_vars

\* ------------------------------------------------ _check_overextension (1h)
\* ATR(14) of the frame at hand, in the price units of that frame.
Atr == 10

\* The last six 1h candles, each opening where the one before closed. A
\* candle is given by its body along the bias (negative: against it) and
\* its wick against the bias.
Shapes1h ==
    {[body |-> 7, wick |-> 0], [body |-> 7, wick |-> 4], [body |-> 7, wick |-> 5],
     [body |-> 4, wick |-> 0], [body |-> 0, wick |-> 0], [body |-> 0 - 1, wick |-> 0]}

RECURSIVE OpenAt(_, _, _)
OpenAt(shapes, bias, k) ==
    IF k = 1 THEN 1000
    ELSE OpenAt(shapes, bias, k - 1)
            + (IF bias = "LONG" THEN shapes[k - 1].body ELSE 0 - shapes[k - 1].body)

CandlesOf(shapes, bias) ==
    [k \in DOMAIN shapes |->
        LET open == OpenAt(shapes, bias, k)
            close == open + (IF bias = "LONG" THEN shapes[k].body
                             ELSE 0 - shapes[k].body)
        IN  [open |-> open, close |-> close,
             low |-> Min2(open, close) - (IF bias = "LONG" THEN shapes[k].wick ELSE 0),
             high |-> Max2(open, close) + (IF bias = "LONG" THEN 0 ELSE shapes[k].wick)]]

\* recent is df_1h.tail(6); the frame holds at least 10 candles.
CheckOverextension(recent, bias, atr_1h) ==
    LET n == Len(recent)
        same_dir == Cardinality({i \in 1..n :
                        IF bias = "LONG" THEN recent[i].close > recent[i].open
                        ELSE recent[i].close < recent[i].open})
        total_move == IF bias = "LONG" THEN recent[n].close - recent[1].low
                      ELSE recent[1].high - recent[n].close
        has_pullback ==
            \E i \in 1..n :
                IF bias = "LONG"
                THEN \/ recent[i].close < recent[i].open
                     \/ 10 * (Min2(recent[i].open, recent[i].close) - recent[i].low)
                            > 4 * atr_1h
                ELSE \/ recent[i].close > recent[i].open
                     \/ 10 * (recent[i].high - Max2(recent[i].open, recent[i].close))
                            > 4 * atr_1h
    IN  IF atr_1h <= 0 THEN FALSE
        ELSE IF same_dir < 5 THEN FALSE
        ELSE IF total_move < atr_1h * 3 THEN FALSE
        ELSE ~has_pullback

\* A 1h candle closes: the tail moves on by one candle.
NewCandle1h ==
    /\ \E shape \in Shapes1h :
        trig' = [called |-> FALSE, op |-> "", bias |-> trig.bias,
                 shapes |-> Append(Tail(trig.shapes), shape),
                 df_1h |-> CandlesOf(Append(Tail(trig.shapes), shape), trig.bias),
                 out |-> NoEmission]
    /\ last_call' = Call("get_multi_timeframe_data", 0, "A", trig.bias, "", 0, "")
    /\ UNCHANGED <<signals, watchlist, trade_state, now, candle_ts, last_eff,
                   opt, strategy>>

\* generate_signal on a 15m frame whose trigger fires, with the 1h frame.
GenerateSignal1h ==
    /\ ~trig.called
    /\ LET out == SweptEmission(trig.bias,
                                CheckOverextension(trig.df_1h, trig.bias, Atr))
       IN  /\ trig' = [trig EXCEPT !.called = TRUE, !.op = "generate_signal",
                                   !.out = out]
           /\ last_call' = Call("generate_signal", 0, "A", trig.bias, out.action, 0, "")
    /\ UNCHANGED <<signals, watchlist, trade_state, now, candle_ts, last_eff,
                   opt, strategy>>

\* The scan starts on a frame that rose six candles in a row.
InitOverextension ==
    /\ signals = <<>>
    /\ watchlist = <<>>
    /\ trade_state = RestoreTradeState(<<>>)
    /\ now = 0
    /\ candle_ts = 0
    /\ last_eff = <<>>
    /\ last_call = Env("init")
    /\ opt = NoOptimizer
    /\ strategy = NoStrategy
    /\ \E bias \in Dirs :
        trig = [called |-> FALSE, op |-> "", bias |-> bias,
                shapes |-> [k \in 1..6 |-> [body |-> 7, wick |-> 0]],
                df_1h |-> CandlesOf([k \in 1..6 |-> [body |-> 7, wick |-> 0]], bias),
                out |-> NoEmission]

NextOverextension ==
    \/ NewCandle1h
    \/ GenerateSignal1h

SpecOverextension == InitOverextension /\ [][NextOverextension]_vars

\* ------------------------------------- analyze_narrative and the 4h guard
\* _detect_structure on the recent swing highs and lows, each in time order.
DetectStructure(prev_highs, prev_lows) ==
    LET rises(prices) == Cardinality({i \in 2..Len(prices) : prices[i] > prices[i - 1]})
        falls(prices) == Cardinality({i \in 2..Len(prices) : prices[i] < prices[i - 1]})
        bull_score == rises(prev_highs) + rises(prev_lows)
        bear_score == falls(prev_lows) + falls(prev_highs)
        bias == IF bull_score >= 2 /\ bull_score > bear_score THEN "LONG"
                ELSE IF bear_score >= 2 /\ bear_score > bull_score THEN "SHORT"
                ELSE "NEUTRAL"
        score == IF bias = "LONG" THEN bull_score ELSE bear_score
        choch == \/ bias = "LONG"
                    /\ prev_lows[Len(prev_lows)] < prev_lows[Len(prev_lows) - 1]
                 \/ bias = "SHORT"
                    /\ prev_highs[Len(prev_highs)] > prev_highs[Len(prev_highs) - 1]
    IN  IF Len(prev_highs) < 2 \/ Len(prev_lows) < 2
            THEN [bias |-> "NEUTRAL", structure_quality |-> "NEUTRAL",
                  choch_detected |-> FALSE]
        ELSE [bias |-> bias,
              structure_quality |-> IF bias = "NEUTRAL" THEN "NEUTRAL"
                                    ELSE IF choch THEN "WEAK"
                                    ELSE IF score >= 3 THEN "STRONG" ELSE "WEAK",
              choch_detected |-> choch]

\* analyze_narrative on frames of at least 20 candles: the 4h structure, and
\* the 1h structure when the 4h one is NEUTRAL.
AnalyzeNarrative(swings_4h, swings_1h) ==
    LET structure_4h == DetectStructure(swings_4h.highs, swings_4h.lows)
        structure_1h == DetectStructure(swings_1h.highs, swings_1h.lows)
    IN  IF structure_4h.bias = "NEUTRAL" /\ ~structure_4h.choch_detected
           /\ structure_1h.bias # "NEUTRAL"
            THEN [bias |-> structure_1h.bias, quality |-> "WEAK", choch |-> FALSE]
        ELSE [bias |-> structure_4h.bias, quality |-> structure_4h.structure_quality,
              choch |-> structure_4h.choch_detected]

\* "4H ENGEL KONTROLU": obstacle is what _check_4h_obstacle_for_fallback
\* finds on the way from the entry to the target.
ObstacleGuard(narrative, obstacle) == narrative.quality = "WEAK" /\ obstacle

SwingLevels == {100, 110, 120}

\* Three swing highs and three swing lows of a frame.
Swings == [highs : [1..3 -> SwingLevels], lows : [1..3 -> SwingLevels]]

Swings1h ==
    {[highs |-> <<100, 110, 120>>, lows |-> <<100, 110, 120>>],
     [highs |-> <<120, 110, 100>>, lows |-> <<120, 110, 100>>],
     [highs |-> <<110, 110, 110>>, lows |-> <<100, 100, 100>>]}

InitNarrative ==
    /\ signals = <<>>
    /\ watchlist = <<>>
    /\ trade_state = RestoreTradeState(<<>>)
    /\ now = 0
    /\ candle_ts = 0
    /\ last_eff = <<>>
    /\ last_call = Env("init")
    /\ opt = NoOptimizer
    /\ strategy = NoStrategy
    /\ \E swings_4h \in Swings, swings_1h \in Swings1h, obstacle \in BOOLEAN :
        trig = [called |-> FALSE, swings_4h |-> swings_4h, swings_1h |-> swings_1h,
                obstacle |-> obstacle, blocked |-> FALSE, out |-> NoEmission]

\* generate_signal on a 15m frame whose trigger fires, under the narrative
\* of the 4h and 1h frames.
GenerateSignalNarrative ==
    /\ ~trig.called
    /\ LET narrative == AnalyzeNarrative(trig.swings_4h, trig.swings_1h)
           blocked == ObstacleGuard(narrative, trig.obstacle)
           out == IF narrative.bias = "NEUTRAL" THEN NoEmission
                  ELSE GenerateSignalResult(narrative.bias, SweptPoi(narrative.bias),
                           100000,
                           [sweep |-> Detected(IF narrative.bias = "LONG" THEN 97500
                                               ELSE 102500, 3),
                            mss |-> NoDetection, displacement |-> NoDetection],
                           FALSE, blocked)
       IN  /\ trig' = [trig EXCEPT !.called = TRUE, !.blocked = blocked, !.out = out]
           /\ last_call' = Call("generate_signal", 0, "A", narrative.bias, out.action,
                                0, "")
    /\ UNCHANGED <<signals, watchlist, trade_state, now, candle_ts, last_eff,
                   opt, strategy>>

SpecNarrative == InitNarrative /\ [][GenerateSignalNarrative]_vars

\* ----------------------------------------------------- _detect_displacement
\* The 15m candles the search runs over, as body along the bias and wick
\* against it: a strong candle, a continuation candle, a candle of more than
\* 3 x ATR, a candle against the bias and an empty candle.
Shapes15m ==
    {[body |-> 6, wick |-> 4], [body |-> 9, wick |-> 9], [body |-> 32, wick |-> 3],
     [body |-> 0 - 5, wick |-> 0], [body |-> 0, wick |-> 0]}

Range(candle) == candle.high - candle.low

Along(candle, bias) ==
    IF bias = "LONG" THEN candle.close - candle.open ELSE candle.open - candle.close

\* The inner loop over j: the candles after i that continue the move.
Consecutive(df, bias, i) ==
    LET continues(j) == /\ j <= Len(df)
                        /\ Along(df[j], bias) > 0
                        /\ 100 * Along(df[j], bias) >= 45 * Range(df[j])
    IN  IF ~continues(i + 1) THEN 1
        ELSE IF ~continues(i + 2) THEN 2
        ELSE 3

\* The volume column is level, so every candle is volume-confirmed.
DetectDisplacement(df, bias, atr) ==
    LET starts(i) ==
            /\ ~(Range(df[i]) > 3 * atr)
            /\ Range(df[i]) # 0
            /\ Along(df[i], bias) > 0
            /\ 1000000 * Along(df[i], bias)
                  >= ICT_PARAMS.displacement_min_body_ratio * Range(df[i])
        total_move(i) ==
            IF bias = "LONG" THEN df[i + Consecutive(df, bias, i) - 1].close - df[i].open
            ELSE df[i].open - df[i + Consecutive(df, bias, i) - 1].close
        hits == {i \in 1..(Len(df) - 1) :
                    starts(i) /\ 10 * total_move(i) >= atr * 15}
        first == CHOOSE i \in hits : \A j \in hits : i <= j
    IN  IF Len(df) < 5 \/ atr <= 0 \/ hits = {}
            THEN [found |-> FALSE, start_index |-> 0, end_index |-> 0,
                  consecutive_candles |-> 0]
        ELSE [found |-> TRUE, start_index |-> first,
              end_index |-> Min2(first + Consecutive(df, bias, first) - 1, Len(df)),
              consecutive_candles |-> Consecutive(df, bias, first)]

\* A 15m candle closes: the frame moves on by one candle.
NewCandle15m ==
    /\ \E shape \in Shapes15m :
        trig' = [called |-> FALSE, bias |-> trig.bias,
                 shapes |-> Append(Tail(trig.shapes), shape),
                 df |-> CandlesOf(Append(Tail(trig.shapes), shape), trig.bias),
                 out |-> DetectDisplacement(<<>>, trig.bias, Atr)]
    /\ last_call' = Call("get_multi_timeframe_data", 0, "A", trig.bias, "", 0, "")
    /\ UNCHANGED <<signals, watchlist, trade_state, now, candle_ts, last_eff,
                   opt, strategy>>

\* check_trigger looks for a displacement on the frame.
DetectDisplacementCall ==
    /\ ~trig.called
    /\ trig' = [trig EXCEPT !.called = TRUE,
                            !.out = DetectDisplacement(trig.df, trig.bias, Atr)]
    /\ last_call' = Call("_detect_displacement", 0, "A", trig.bias, "", 0, "")
    /\ UNCHANGED <<signals, watchlist, trade_state, now, candle_ts, last_eff,
                   opt, strategy>>

\* The search starts on a frame of five empty candles.
InitDisplacement ==
    /\ signals = <<>>
    /\ watchlist = <<>>
    /\ trade_state = RestoreTradeState(<<>>)
    /\ now = 0
    /\ candle_ts = 0
    /\ last_eff = <<>>
    /\ last_call = Env("init")
    /\ opt = NoOptimizer
    /\ strategy = NoStrategy
    /\ \E bias \in Dirs :
        trig = [called |-> FALSE, bias |-> bias,
                shapes |-> [k \in 1..5 |-> [body |-> 0, wick |-> 0]],
                df |-> CandlesOf([k \in 1..5 |-> [body |-> 0, wick |-> 0]], bias),
                out |-> DetectDisplacement(<<>>, bias, Atr)]

NextDisplacement ==
    \/ NewCandle15m
    \/ DetectDisplacementCall

SpecDisplacement == InitDisplacement /\ [][NextDisplacement]_vars

\* ---------------------------------------------------------------- _find_fvg
MaxFrame == 7            \* candles a frame grows to
FvgMaxAge == 3           \* max_age handed to _find_fvg

\* Closed candles of a frame around 1000: a base candle, a candle gapping
\* above it, and candles reaching into the gap between the two.
FvgCandles ==
    {[low |-> 1000, high |-> 1004, close |-> 1000],
     [low |-> 1006, high |-> 1012, close |-> 1010],
     [low |-> 1005, high |-> 1009, close |-> 1007],
     [low |-> 1003, high |-> 1008, close |-> 1006],
     [low |-> 1001, high |-> 1005, close |-> 1003]}

\* The mitigation loop looking at the newest candle only
MitigationScanLast(i, n) == IF n >= i + 2 THEN {n} ELSE {}

\* "for j in range(i + 2, len(df))": the candles after the gap's third one
MitigationScan(i, n) == (i + 2)..n

\* The gap around candle i (1-based), or type "NONE": the size test is
\* gap_size / closes[i] >= fvg_min_size_pct.
GapAt(df, i) ==
    LET big(gap_size) == 1000000 * gap_size >= ICT_PARAMS.fvg_min_size_pct * df[i].close
    IN  IF df[i].close = 0 THEN [type |-> "NONE", high |-> 0, low |-> 0]
        ELSE IF df[i - 1].high < df[i + 1].low /\ big(df[i + 1].low - df[i - 1].high)
        THEN [type |-> "BULLISH", high |-> df[i + 1].low, low |-> df[i - 1].high]
        ELSE IF df[i - 1].low > df[i + 1].high /\ big(df[i - 1].low - df[i + 1].high)
        THEN [type |-> "BEARISH", high |-> df[i - 1].low, low |-> df[i + 1].high]
        ELSE [type |-> "NONE", high |-> 0, low |-> 0]

\* ce is (high + low) / 2; the comparisons are made on twice the price.
Mitigation(df, i) ==
    LET gap == GapAt(df, i)
        scan == MitigationScan(i, Len(df))
    IN  IF gap.type = "BULLISH"
        THEN IF \E j \in scan : df[j].low <= gap.low THEN "FULL"
             ELSE IF \E j \in scan : 2 * df[j].low <= gap.high + gap.low THEN "PARTIAL"
             ELSE "FRESH"
        ELSE IF \E j \in scan : df[j].high >= gap.high THEN "FULL"
             ELSE IF \E j \in scan : 2 * df[j].high >= gap.high + gap.low THEN "PARTIAL"
             ELSE "FRESH"

\* The FVGs returned, as a set; index is 1-based.
FindFvg(df, max_age) ==
    IF Len(df) < 5 THEN {}
    ELSE {[type |-> GapAt(df, i).type, high |-> GapAt(df, i).high,
           low |-> GapAt(df, i).low, index |-> i, age |-> Len(df) - i,
           mitigated |-> Mitigation(df, i)] :
            i \in {k \in Max2(2, Len(df) - max_age)..(Len(df) - 1) :
                      /\ GapAt(df, k).type # "NONE"
                      /\ Mitigation(df, k) # "FULL"}}

\* A candle closes on the frame and the engine looks for FVGs again.
NewCandleFvg ==
    /\ Len(trig.df) < MaxFrame
    /\ \E candle \in FvgCandles :
        trig' = [called |-> TRUE, df |-> Append(trig.df, candle),
                 fvgs |-> FindFvg(Append(trig.df, candle), FvgMaxAge)]
    /\ last_call' = Call("_find_fvg", 0, "A", "", "", 0, "")
    /\ UNCHANGED <<signals, watchlist, trade_state, now, candle_ts, last_eff,
                   opt, strategy>>

InitFvg ==
    /\ signals = <<>>
    /\ watchlist = <<>>
    /\ trade_state = RestoreTradeState(<<>>)
    /\ now = 0
    /\ candle_ts = 0
    /\ last_eff = <<>>
    /\ last_call = Env("init")
    /\ opt = NoOptimizer
    /\ strategy = NoStrategy
    /\ trig = [called |-> FALSE, df |-> <<>>, fvgs |-> FindFvg(<<>>, FvgMaxAge)]

SpecFvg == InitFvg /\ [][NewCandleFvg]_vars

\* ------------------------------------------------------------------ claims
OpenIn(direction) == {i \in GetActiveSignals(signals) : signals[i].direction = direction}

\* C1: after any sequence of scan, watchlist and open-trade ticks the number
\* of non-terminal signals is at most max_concurrent_trades, and in each
\* direction at most max_same_direction_trades.
C1_OpenWithinCaps ==
    /\ GetActiveTradeCount(signals) <= max_concurrent_trades
    /\ \A d \in Dirs : Cardinality(OpenIn(d)) <= max_same_direction_trades

\* The portfolio is full and a promotion was just turned down by the
\* concurrency gate.
C1_Witness ==
    /\ GetActiveTradeCount(signals) = max_concurrent_trades
    /\ last_call.op = "check_watchlist"
    /\ last_call.result = "max_concurrent"


\* C2: once a signal's persisted status is WON, LOST or CANCELLED, no later
\* open-trade tick, watchlist tick or scan changes that status.
C2_TerminalIsFinal ==
    [][\A i \in DOMAIN signals :
          IsTerminal(signals[i]) => signals'[i].status = signals[i].status]_vars

\* A first signal is terminal and check_open_trades has just run on a second.
C2_Witness ==
    /\ Len(signals) = 2
    /\ IsTerminal(signals[1])
    /\ last_call.op = "check_open_trades"
    /\ last_call.id = 2

C4_OneOpenPerSymbol ==
    \A i, j \in GetActiveSignals(signals) :
        signals[i].symbol = signals[j].symbol => i = j

\* _open_trade has just turned a promotion down because the symbol has an
\* open signal.
C4_Witness ==
    /\ last_call.op = "check_watchlist"
    /\ last_call.result = "active_exists"
    /\ \E i \in GetActiveSignals(signals) : signals[i].symbol = last_call.sym

SlDistanceInBand(s) ==
    /\ min_sl_distance_pct * s.entry_price <= 1000 * Abs(s.entry_price - s.stop_loss)
    /\ 1000 * Abs(s.entry_price - s.stop_loss) <= max_sl_distance_pct * s.entry_price

StopOnLossSide(s) ==
    IF s.direction = "LONG" THEN s.stop_loss < s.entry_price
    ELSE s.stop_loss > s.entry_price

C7_LevelsOnCorrectSides ==
    (trig.called /\ trig.out.action = "SIGNAL") =>
        IF trig.out.direction = "LONG"
        THEN trig.out.sl < trig.out.entry /\ trig.out.entry < trig.out.tp
        ELSE trig.out.tp < trig.out.entry /\ trig.out.entry < trig.out.sl

GatesPass(symbol, direction) ==
    /\ ~AtConcurrentLimit(signals)
    /\ ~SymbolIsOpen(signals, symbol)
    /\ ~AtDirectionLimit(signals, direction)
    /\ ~InCooldown(signals, symbol, now)

\* C8: when process_signal is handed a SIGNAL emission and all entry gates
\* pass, that same step persists a new ACTIVE signal for the symbol; the
\* fired Signal is not parked in the watchlist.
C8_SignalOpensAtOnce ==
    [][(/\ last_call'.op = "process_signal"
        /\ last_call'.kind = "SIGNAL"
        /\ GatesPass(last_call'.sym, last_call'.dir))
        => /\ Len(signals') = Len(signals) + 1
           /\ signals'[Len(signals')].status = "ACTIVE"
           /\ signals'[Len(signals')].symbol = last_call'.sym
           /\ watchlist' = watchlist]_vars

\* C9: every persisted signal has entry mode MARKET and none is WAITING.
C9_MarketOnly ==
    \A i \in DOMAIN signals :
        signals[i].entry_mode = "MARKET" /\ signals[i].status # "WAITING"

\* C10: the first tick with a ticker at which now - entry_time exceeds
\* MAX_TRADE_DURATION_HOURS closes the ACTIVE trade at the ticker price, WON
\* if the move from entry to that price is a profit and LOST otherwise; and,
\* ticks and the clock running on, every ACTIVE trade becomes terminal.
C10_AgeClose ==
    /\ [][\A i \in DOMAIN signals :
            (/\ last_call'.op = "check_open_trades" /\ last_call'.id = i
             /\ signals[i].status = "ACTIVE"
             /\ now - signals[i].entry_time > MAX_TRADE_DURATION_HOURS * 60)
            => /\ signals'[i].close_price = last_call'.price
               /\ signals'[i].close_time = now
               /\ signals'[i].status =
                    IF \/ signals[i].direction = "LONG"
                          /\ last_call'.price > signals[i].entry_price
                       \/ signals[i].direction = "SHORT"
                          /\ last_call'.price < signals[i].entry_price
                    THEN "WON" ELSE "LOST"]_vars
    /\ \A i \in {1} : (signals[i].status = "ACTIVE") ~> IsTerminal(signals[i])

\* A trade older than MAX_TRADE_DURATION_HOURS was closed by a tick at a
\* price between its stop and its target.
C10_Witness ==
    /\ IsTerminal(signals[1])
    /\ signals[1].close_time - signals[1].entry_time > MAX_TRADE_DURATION_HOURS * 60
    /\ last_call.op = "check_open_trades"
    /\ signals[1].close_price = last_call.price
    /\ signals[1].close_price > 99000 /\ signals[1].close_price < 101000

\* The effective_sl the first tick after a restart computes for row i at the
\* given ticker price (0: that tick returns before computing one).
EffAfterRestart(i, price) ==
    LET restored == RestoreTradeState(signals)
        has == i \in DOMAIN restored
    IN  CheckActiveSignal(signals[i], has, IF has THEN restored[i] ELSE DefaultState,
                          price, now).eff

\* C11: whenever a tick has computed an effective_sl for an ACTIVE trade, that
\* level is what persistence holds, so that a restart (_restore_trade_state
\* and then the next tick, at any ticker price) never computes an
\* effective_sl looser than the one before the restart.
C11_RestartKeepsStop ==
    \A i \in DOMAIN signals :
        (signals[i].status = "ACTIVE" /\ last_eff[i] # 0) =>
            \A price \in PricesFor(signals[i].direction, FinePrices) :
                LET eff == EffAfterRestart(i, price)
                IN  eff # 0 =>
                        IF signals[i].direction = "LONG" THEN eff >= last_eff[i]
                        ELSE eff <= last_eff[i]

\* C12: _restore_trade_state writes nothing to persistence (signal and
\* watchlist tables are as before), and running it again on the same signals
\* leaves the in-memory trade state it built unchanged.
C12_RestoreIdempotent ==
    [][last_call'.op = "restart" =>
          /\ signals' = signals
          /\ watchlist' = watchlist
          /\ RestoreInto(trade_state', signals') = trade_state']_vars

\* A restart rebuilt the state of a trade whose breakeven stop had been
\* written back.
C12_Witness ==
    /\ last_call.op = "restart"
    /\ signals[1].status = "ACTIVE"
    /\ 1 \in DOMAIN trade_state
    /\ trade_state[1].breakeven_moved
    /\ trade_state[1].trailing_sl = signals[1].stop_loss

\* C13: a check_watchlist tick that finds the newest 5m candle timestamp equal
\* to the entry's stored last_5m_candle_ts leaves the entry (and both tables)
\* unchanged; candles_watched only ever grows by one, on a candle the entry had
\* not seen, whose timestamp is stored with it, so it never exceeds the number
\* of candles closed.
C13_SameCandleSkipped ==
    [][/\ (/\ last_call'.op = "check_watchlist"
            /\ last_call'.kind # "no_data"
            /\ watchlist[last_call'.id].last_5m_candle_ts = candle_ts)
           => (watchlist' = watchlist /\ signals' = signals)
       /\ \A i \in DOMAIN watchlist :
              watchlist'[i].candles_watched # watchlist[i].candles_watched =>
                  /\ watchlist'[i].candles_watched = watchlist[i].candles_watched + 1
                  /\ watchlist[i].last_5m_candle_ts # candle_ts
                  /\ watchlist'[i].last_5m_candle_ts = candle_ts
       /\ \A i \in DOMAIN watchlist' :
              watchlist'[i].candles_watched <= candle_ts' + 1]_vars

\* check_watchlist ran again on a candle the entry had already counted.
C13_Witness ==
    /\ last_call.op = "check_watchlist"
    /\ last_call.kind = "same_candle"
    /\ watchlist[last_call.id].status = "WATCHING"
    /\ watchlist[last_call.id].candles_watched >= 1
    /\ watchlist[last_call.id].last_5m_candle_ts = candle_ts

\* The step is a check_watchlist tick in which entry i, for which no setup
\* had been completed so far, sees its max_watch_candles-th new candle.
LastWatchTick(i) ==
    /\ last_call'.op = "check_watchlist"
    /\ last_call'.id = i
    /\ last_call'.kind \notin {"no_data", "same_candle"}
    /\ watchlist[i].status = "WATCHING"
    /\ ~watchlist[i].complete
    /\ watchlist[i].candles_watched + 1 >= watchlist[i].max_watch_candles

\* C14: a WATCHING entry whose candles_watched reaches max_watch_candles
\* without a trigger having fired is set to EXPIRED and no trade is opened
\* for it: the tick of its last candle places no order from the entry's own
\* stored levels (the engine returned no SIGNAL in that tick).
C14_TimeoutExpires ==
    [][\A i \in DOMAIN watchlist :
          (LastWatchTick(i) /\ last_call'.result = "LIMIT_PLACED") =>
              (watchlist'[i].status = "EXPIRED" /\ signals' = signals)]_vars

\* C15: a WATCHING entry does not outlive its max_watch_candles-th newly
\* closed 5m candle: the check_watchlist tick that counts that candle for the
\* entry leaves it PROMOTED or EXPIRED.
C15_WatchBounded ==
    [][\A i \in DOMAIN watchlist :
          (/\ last_call'.op = "check_watchlist"
           /\ last_call'.id = i
           /\ watchlist[i].status = "WATCHING"
           /\ watchlist'[i].last_5m_candle_ts # watchlist[i].last_5m_candle_ts
           /\ watchlist[i].candles_watched + 1 >= watchlist[i].max_watch_candles)
              => watchlist'[i].status \in {"PROMOTED", "EXPIRED"}]_vars

\* C16: in every reachable state no (symbol, direction) is both an ACTIVE
\* signal and a WATCHING watchlist entry.
C16_ActiveNotWatching ==
    \A i \in DOMAIN signals, j \in DOMAIN watchlist :
        ~(/\ signals[i].status = "ACTIVE"
          /\ watchlist[j].status = "WATCHING"
          /\ signals[i].symbol = watchlist[j].symbol
          /\ signals[i].direction = watchlist[j].direction)

\* ======================================================= self-optimiser
min_trades == 20
MAX_CHANGES_PER_CYCLE == 4

MaxTrades == 24          \* terminal signals the database may hold
MaxLog == 5              \* optimisation-log rows after which no run is taken

\* ---------------------------------------------------------- database layer
\* get_performance_summary: the terminal (WON/LOST/CANCELLED) trade count.
GetPerformanceSummary(o) == [total_trades |-> o.won + o.lost + o.cancelled]

\* get_completed_signals(200): the WON and LOST rows (fewer than 200 here).
GetCompletedSignals(o) == [winners |-> o.won, losers |-> o.lost]

GetBotParam(params, param) == params[param]

SaveBotParam(params, param, value) == [params EXCEPT ![param] = value]

AddOptimizationLog(log, param, old_value, new_value, rollback) ==
    Append(log, [param |-> param, old |-> old_value, new |-> new_value,
                 rollback |-> rollback])

\* ------------------------------------------------------- _build_trade_pool
\* win_rate is winners / total * 100, kept as the fraction winners / total
\* (0 / 1 when the pool is empty).
WinRate(winners, total) ==
    IF total = 0 THEN [won |-> 0, total |-> 1] ELSE [won |-> winners, total |-> total]

BuildTradePool(o) ==
    LET completed == GetCompletedSignals(o)
        total == completed.winners + completed.losers
    IN  [completed |-> total, winners |-> completed.winners,
         losers |-> completed.losers, win_rate |-> WinRate(completed.winners, total)]

\* last_wr - current_wr >= 3.0, both in percent
WrDropAtLeast3(last_wr, current_wr) ==
    100 * (last_wr.won * current_wr.total - current_wr.won * last_wr.total)
        >= 3 * last_wr.total * current_wr.total

\* --------------------------------------------------------- _prepare_change
\* new_val arrives in hundredths of a millionth (current_val * percent), so
\* that a step of 8 % of any stored value is exact. The result is the
\* candidate's new value in millionths, or 0 for None.
\* round(x, k) of a value given in hundredths of a millionth: k = 6 below
\* 0.01, k = 5 below 1, k = 4 from 1 on; ties go up.
RoundTo(x, quantum) == ((2 * x + quantum) \div (2 * quantum)) * quantum

\* int(round(x)) of a value given in hundredths: ties go to the even integer.
RoundInt(x) ==
    LET floor == x \div 100
        rest == x % 100
    IN  IF rest < 50 THEN floor
        ELSE IF rest > 50 THEN floor + 1
        ELSE IF floor % 2 = 0 THEN floor ELSE floor + 1

RoundParam(param_name, x) ==
    IF PARAM_REGISTRY[param_name].integer THEN RoundInt(x)
    ELSE IF x < 1000000 THEN RoundTo(x, 100) \div 100
    ELSE IF x < 100000000 THEN RoundTo(x, 1000) \div 100
    ELSE RoundTo(x, 10000) \div 100

\* "Sinir kontrolu" without the bounds
ClampNone(min_b, max_b, new_val) == new_val

\* "Sinir kontrolu": max(min_b, min(max_b, new_val))
Clamp(min_b, max_b, new_val) == Max2(min_b, Min2(max_b, new_val))

PrepareChange(param_name, current_val, new_val) ==
    LET registry == PARAM_REGISTRY[param_name]
        current == current_val * 100
        max_change == Abs(current_val * 10)
        capped == IF max_change > 0 /\ Abs(new_val - current) > max_change
                  THEN current + (IF new_val > current THEN max_change
                                  ELSE 0 - max_change)
                  ELSE new_val
        clamped == Clamp(registry.min_b * 100, registry.max_b * 100, capped)
        rounded == RoundParam(param_name, clamped)
    IN  IF current_val # 0 /\ Abs(rounded - current_val) * 100 < Abs(current_val)
            THEN 0
        ELSE IF current_val = 0 /\ rounded = current_val THEN 0
        ELSE rounded

Change(param, old, new, priority) ==
    [param |-> param, old |-> old, new |-> new, priority |-> priority]

\* _commit_changes for one candidate: the store and the log.
CommitChange(st, c) ==
    [params |-> SaveBotParam(st.params, c.param, c.new),
     log |-> AddOptimizationLog(st.log, c.param, c.old, c.new, FALSE),
     changes |-> Append(st.changes, c)]

\* _apply_change: prepare and commit at once.
ApplyChange(st, param_name, percent) ==
    LET current_val == GetBotParam(st.params, param_name)
        new == PrepareChange(param_name, current_val, current_val * percent)
    IN  IF new = 0 THEN st
        ELSE CommitChange(st, Change(param_name, current_val, new, "EMERGENCY"))

\* --------------------------------------------------------- _check_rollback
RevertValueNew(prev_change) == prev_change.new

\* "Geri donulecek deger": the value the rollback writes.
RevertValue(prev_change) == prev_change.old

\* The loop over _last_optimization_changes, in order: each step reads the
\* stored value, writes the old one back and logs the reversion.
StoredBefore(params, prev_changes, k) ==
    LET earlier == {j \in 1..(k - 1) : prev_changes[j].param = prev_changes[k].param}
    IN  IF earlier = {} THEN GetBotParam(params, prev_changes[k].param)
        ELSE RevertValue(prev_changes[CHOOSE j \in earlier : \A i \in earlier : i <= j])

Reverted(params, prev_changes) ==
    [k \in DOMAIN prev_changes |->
        Change(prev_changes[k].param, StoredBefore(params, prev_changes, k),
               RevertValue(prev_changes[k]), "ROLLBACK")]

RevertChanges(st, prev_changes) ==
    LET changes == Reverted(st.params, prev_changes)
    IN  [params |-> [p \in DOMAIN st.params |->
                        StoredBefore(st.params,
                                     Append(prev_changes, [param |-> p]),
                                     Len(prev_changes) + 1)],
         log |-> st.log \o [k \in DOMAIN changes |->
                               [param |-> changes[k].param, old |-> changes[k].old,
                                new |-> changes[k].new, rollback |-> TRUE]],
         changes |-> st.changes \o changes]

RollbackDue(o, pool) ==
    /\ ~(o.last_optimization_wr = NoWr \/ o.last_optimization_changes = <<>>)
    /\ WrDropAtLeast3(o.last_optimization_wr, pool.win_rate)
    /\ pool.completed >= min_trades + 2

\* Result: the optimiser with the store, the log and the cleared rollback
\* state, and the changes made.
CheckRollback(o, pool) ==
    LET st == RevertChanges([params |-> o.params, log |-> o.log, changes |-> <<>>],
                            o.last_optimization_changes)
    IN  IF RollbackDue(o, pool)
        THEN [o |-> [o EXCEPT !.params = st.params, !.log = st.log,
                              !.last_optimization_wr = NoWr,
                              !.last_optimization_changes = <<>>],
              changes |-> st.changes]
        ELSE [o |-> o, changes |-> <<>>]

\* --------------------------------------------------------- _emergency_mode
EmergencyMode(o, pool) ==
    LET st0 == [params |-> o.params, log |-> o.log, changes |-> <<>>]
        st1 == ApplyChange(st0, "displacement_min_body_ratio", 108)
        st2 == ApplyChange(st1, "fvg_min_size_pct", 110)
        st3 == IF GetBotParam(st2.params, "default_sl_pct") < 20000
               THEN ApplyChange(st2, "default_sl_pct", 106) ELSE st2
    IN  IF pool.losers > 10 THEN [o |-> o, changes |-> <<>>]
        ELSE [o |-> [o EXCEPT !.params = st3.params, !.log = st3.log],
              changes |-> st3.changes]

\* ----------------------------------------- _optimize_*, _select_top_changes
\* The candidates of the _optimize_* layers, in priority order: a parameter
\* and the raw new value as a percentage of the stored one.
Candidates(params, proposals) ==
    SelectSeq([k \in DOMAIN proposals |->
                  LET current_val == GetBotParam(params, proposals[k].param)
                  IN  Change(proposals[k].param, current_val,
                             PrepareChange(proposals[k].param, current_val,
                                           current_val * proposals[k].percent),
                             "NORMAL")],
              LAMBDA c : c.new # 0)

Group(c) == PARAM_REGISTRY[c.param].group

SelectAll(candidates) == candidates

\* The selection loop: a candidate is passed over when two earlier ones of
\* its group were taken, and the loop stops at MAX_CHANGES_PER_CYCLE.
Select(candidates) ==
    LET eligible == {k \in DOMAIN candidates :
                        Cardinality({j \in 1..(k - 1) :
                                        Group(candidates[j]) = Group(candidates[k])}) < 2}
        rank(k) == Cardinality({j \in eligible : j <= k})
    IN  [n \in 1..Min2(MAX_CHANGES_PER_CYCLE, Cardinality(eligible)) |->
            candidates[CHOOSE k \in eligible : rank(k) = n]]

LastWrite(params, candidates, p) ==
    LET writes == {k \in DOMAIN candidates : candidates[k].param = p}
    IN  IF writes = {} THEN params[p]
        ELSE candidates[CHOOSE k \in writes : \A j \in writes : j <= k].new

CommitChanges(st, candidates) ==
    [params |-> [p \in DOMAIN st.params |-> LastWrite(st.params, candidates, p)],
     log |-> st.log \o [k \in DOMAIN candidates |->
                           [param |-> candidates[k].param, old |-> candidates[k].old,
                            new |-> candidates[k].new, rollback |-> FALSE]],
     changes |-> st.changes \o candidates]

SelectTopChanges(o, all_candidates) ==
    LET selected == Select(all_candidates)
        st == CommitChanges([params |-> o.params, log |-> o.log, changes |-> <<>>],
                            selected)
    IN  [o |-> [o EXCEPT !.params = st.params, !.log = st.log], changes |-> selected]

\* ------------------------------------------------------ _post_optimization
Stash(changes) ==
    [k \in DOMAIN changes |->
        [param |-> changes[k].param, old |-> changes[k].old, new |-> changes[k].new]]

PostOptimization(o, changes, pool, total_trades) ==
    [o EXCEPT !.last_optimization_wr = pool.win_rate,
              !.last_optimization_changes = Stash(changes),
              !.last_trade_count = total_trades]

\* --------------------------------------------------------- run_optimization
TooFewTradesNever(total_trades) == FALSE

TooFewTrades(total_trades) == total_trades < min_trades

Returned(o, before, status, kind, changes) ==
    [o EXCEPT !.prev_params = IF status = "SKIPPED" THEN o.prev_params
                              ELSE before.params,
              !.result = [status |-> status, kind |-> kind, changes |-> Stash(changes)]]

\* run_optimization from "SONUC" on: the normal changes are in, the state is
\* stashed and the run returns.
Completed(o, before, changes, kind, pool) ==
    Returned(PostOptimization(o, changes, pool, GetPerformanceSummary(before).total_trades),
             before, "COMPLETED", kind, changes)

\* run_optimization from "ADIM 2" on, with what _check_rollback returned.
AfterRollback(before, proposals, pool, rollback) ==
    IF rollback.changes # <<>>
        \* 22 completed trades without a win are more than 10 losses
        THEN Completed(IF pool.win_rate.won = 0 /\ pool.losers >= 3
                       THEN EmergencyMode(rollback.o, pool).o ELSE rollback.o,
                       before,
                       rollback.changes \o
                           (IF pool.win_rate.won = 0 /\ pool.losers >= 3
                            THEN EmergencyMode(rollback.o, pool).changes ELSE <<>>),
                       "ROLLBACK", pool)
    ELSE IF pool.win_rate.won = 0 /\ pool.losers >= 3
                /\ EmergencyMode(before, pool).changes # <<>>
        THEN Completed(EmergencyMode(before, pool).o, before,
                       EmergencyMode(before, pool).changes, "EMERGENCY", pool)
    ELSE Completed(SelectTopChanges(before, Candidates(before.params, proposals)).o,
                   before,
                   SelectTopChanges(before, Candidates(before.params, proposals)).changes,
                   "NORMAL", pool)

RunOptimizationResult(o, proposals) ==
    IF TooFewTrades(GetPerformanceSummary(o).total_trades)
        THEN Returned(o, o, "SKIPPED", "", <<>>)
    ELSE AfterRollback(o, proposals, BuildTradePool(o),
                       CheckRollback(o, BuildTradePool(o)))

\* ----------------------------------------------------------------- actions
\* The populations the optimiser is started on: too few trades, losses only,
\* and a winning record.
StartPopulations ==
    {[won |-> 0, lost |-> 5, cancelled |-> 13],
     [won |-> 15, lost |-> 5, cancelled |-> 0]}

Proposals ==
    {<<>>,
     <<[param |-> "displacement_min_body_ratio", percent |-> 105]>>,
     <<[param |-> "fvg_min_size_pct", percent |-> 120],
       [param |-> "default_sl_pct", percent |-> 80]>>}

\* The optimiser constructed over one of the populations and one of the
\* given Parameter Stores.
InitWith(stores) ==
    /\ signals = <<>>
    /\ watchlist = <<>>
    /\ trade_state = RestoreTradeState(<<>>)
    /\ now = 0
    /\ candle_ts = 0
    /\ last_eff = <<>>
    /\ last_call = Env("init")
    /\ trig = NoTrigger
    /\ \E population \in StartPopulations, params \in stores :
        /\ opt = SelfOptimizer(population.won, population.lost, population.cancelled,
                               params)
        /\ strategy = ICTStrategy(params)

InitOptimizer == InitWith({ICT_PARAMS})

\* A trade reaches a terminal status (update_signal_status).
TradeCloses ==
    /\ GetPerformanceSummary(opt).total_trades < MaxTrades
    /\ \E status \in {"WON", "LOST", "CANCELLED"} :
        /\ opt' = [opt EXCEPT !.won = @ + (IF status = "WON" THEN 1 ELSE 0),
                              !.lost = @ + (IF status = "LOST" THEN 1 ELSE 0),
                              !.cancelled = @ + (IF status = "CANCELLED" THEN 1 ELSE 0)]
        /\ last_call' = Call("update_signal_status", 0, "", "", status, 0, "")
    /\ UNCHANGED <<signals, watchlist, trade_state, now, candle_ts, last_eff, trig, strategy>>

\* The 30-minute job.
Run(proposal_lists) ==
    /\ Len(opt.log) < MaxLog
    /\ \E proposals \in proposal_lists :
        /\ opt' = RunOptimizationResult(opt, proposals)
        /\ last_call' = Call("run_optimization", 0, "", "", opt'.result.kind, 0,
                             opt'.result.status)
    /\ UNCHANGED <<signals, watchlist, trade_state, now, candle_ts, last_eff, trig, strategy>>

RunOptimization == Run(Proposals)

NextOptimizer ==
    \/ TradeCloses
    \/ RunOptimization

SpecOptimizer == InitOptimizer /\ [][NextOptimizer]_vars

\* The same cycles over a store whose values lie next to their bounds.
EdgeParams ==
    [ICT_PARAMS EXCEPT !.displacement_min_body_ratio = 740000,
                       !.fvg_min_size_pct = 3900,
                       !.default_sl_pct = 8200]

InitBounds == InitWith({ICT_PARAMS, EdgeParams})

SpecBounds == InitBounds /\ [][NextOptimizer]_vars

\* Cycles whose _optimize_* layers propose more than the selection takes:
\* each layer proposes a parameter at most once, in priority order.
WideProposals ==
    {<<[param |-> "fvg_min_size_pct", percent |-> 110],
       [param |-> "liquidity_equal_tolerance", percent |-> 110],
       [param |-> "poi_max_distance_pct", percent |-> 105],
       [param |-> "displacement_min_body_ratio", percent |-> 105],
       [param |-> "displacement_min_size_pct", percent |-> 95],
       [param |-> "default_sl_pct", percent |-> 95]>>,
     <<[param |-> "displacement_min_body_ratio", percent |-> 95],
       [param |-> "default_sl_pct", percent |-> 105],
       [param |-> "swing_lookback", percent |-> 110],
       [param |-> "fvg_min_size_pct", percent |-> 95],
       [param |-> "liquidity_equal_tolerance", percent |-> 95]>>,
     <<[param |-> "swing_lookback", percent |-> 90]>>}

RunWide == Run(WideProposals)

NextSelect ==
    \/ TradeCloses
    \/ RunWide

SpecSelect == InitOptimizer /\ [][NextSelect]_vars

\* ------------------------------------------------ enforce_bounds_on_startup
\* all_params.get(param_name) of a name the store does not hold
None == 0 - 1

OutOfBoundsAbove(min_b, max_b, current_val) == current_val > max_b

OutOfBounds(min_b, max_b, current_val) == current_val < min_b \/ current_val > max_b

\* The names the loop resets: stored, and outside the registry bounds.
ResetNames(all_params) ==
    {param_name \in ParamNames :
        /\ all_params[param_name] # None
        /\ OutOfBounds(PARAM_REGISTRY[param_name].min_b,
                       PARAM_REGISTRY[param_name].max_b, all_params[param_name])}

EnforceBoundsOnStartup(all_params) ==
    [params |-> [param_name \in ParamNames |->
                    IF param_name \in ResetNames(all_params)
                        THEN ICT_PARAMS[param_name]
                    ELSE all_params[param_name]],
     reset_count |-> Cardinality(ResetNames(all_params))]

\* What a store may hold for a name when the program starts: nothing, a
\* value at a bound, or a value one step outside it.
StoredValues(param_name) ==
    {None, ICT_PARAMS[param_name],
     PARAM_REGISTRY[param_name].min_b - 1, PARAM_REGISTRY[param_name].min_b,
     PARAM_REGISTRY[param_name].max_b, PARAM_REGISTRY[param_name].max_b + 1}

StartupStores ==
    {[ICT_PARAMS EXCEPT !.displacement_min_body_ratio = body,
                        !.fvg_min_size_pct = fvg,
                        !.swing_lookback = swing,
                        !.default_sl_pct = sl] :
        body \in StoredValues("displacement_min_body_ratio"),
        fvg \in StoredValues("fvg_min_size_pct"),
        swing \in StoredValues("swing_lookback"),
        sl \in StoredValues("default_sl_pct")}

InitStartup == InitWith(StartupStores)

EnforceBounds ==
    /\ opt' = [opt EXCEPT !.params = EnforceBoundsOnStartup(opt.params).params]
    /\ last_call' = Call("enforce_bounds_on_startup", 0, "", "", "",
                         EnforceBoundsOnStartup(opt.params).reset_count, "")
    /\ UNCHANGED <<signals, watchlist, trade_state, now, candle_ts, last_eff, trig, strategy>>

NextStartup == EnforceBounds

SpecStartup == InitStartup /\ [][NextStartup]_vars

\* ------------------------------ _load_params against _commit_changes
\* The keys of ICT_PARAMS in the order _load_params iterates them.
ParamOrder ==
    <<"swing_lookback", "fvg_min_size_pct", "liquidity_equal_tolerance",
      "default_sl_pct", "displacement_min_body_ratio", "displacement_min_size_pct",
      "poi_max_distance_pct">>

\* _select_top_changes hands the selected candidates to _commit_changes.
BeginCommit ==
    /\ strategy.pending = <<>>
    /\ Len(opt.log) < MaxLog
    /\ \E proposals \in Proposals :
        /\ Select(Candidates(opt.params, proposals)) # <<>>
        /\ strategy' = [strategy EXCEPT
                            !.pending = Select(Candidates(opt.params, proposals))]
    /\ last_call' = Env("_select_top_changes")
    /\ UNCHANGED <<signals, watchlist, trade_state, now, candle_ts, last_eff, trig, opt>>

\* One turn of the loop of _commit_changes: save_bot_param and
\* add_optimization_log for the next candidate.
CommitStep ==
    /\ strategy.pending # <<>>
    /\ opt' = [opt EXCEPT
                  !.params = SaveBotParam(@, Head(strategy.pending).param,
                                          Head(strategy.pending).new),
                  !.log = AddOptimizationLog(@, Head(strategy.pending).param,
                                             Head(strategy.pending).old,
                                             Head(strategy.pending).new, FALSE)]
    /\ strategy' = [strategy EXCEPT
                        !.pending = Tail(@),
                        !.consistent = IF Tail(strategy.pending) = <<>>
                                           THEN @ \cup {opt'.params} ELSE @]
    /\ last_call' = Env("_commit_changes")
    /\ UNCHANGED <<signals, watchlist, trade_state, now, candle_ts, last_eff, trig>>

\* reload_params: _load_params starts over the keys of ICT_PARAMS.
ReloadParams ==
    /\ strategy.to_load = <<>>
    /\ strategy' = [strategy EXCEPT !.to_load = ParamOrder]
    /\ last_call' = Env("reload_params")
    /\ UNCHANGED <<signals, watchlist, trade_state, now, candle_ts, last_eff, trig, opt>>

\* One turn of the loop of _load_params: get_bot_param for the next key.
\* int(val) of an integer-typed parameter is the stored value, which the
\* store holds in units.
LoadStep ==
    /\ strategy.to_load # <<>>
    /\ strategy' = [strategy EXCEPT
                        !.params[Head(strategy.to_load)] =
                            GetBotParam(opt.params, Head(strategy.to_load)),
                        !.to_load = Tail(@)]
    /\ last_call' = Env("_load_params")
    /\ UNCHANGED <<signals, watchlist, trade_state, now, candle_ts, last_eff, trig, opt>>

NextSnapshot ==
    \/ BeginCommit
    \/ CommitStep
    \/ ReloadParams
    \/ LoadStep

SpecSnapshot == InitOptimizer /\ [][NextSnapshot]_vars

\* ------------------------------------------------- optimiser properties
RanOptimization == last_call'.op = "run_optimization"

\* C17: with fewer than min_trades_for_optimization terminal trades,
\* run_optimization returns SKIPPED and writes no parameter, appends no log
\* entry and leaves the stored rollback state as it was.
C17_SkippedChangesNothing ==
    [][(RanOptimization /\ GetPerformanceSummary(opt).total_trades < min_trades)
          => /\ opt'.result.status = "SKIPPED"
             /\ opt'.params = opt.params
             /\ opt'.log = opt.log
             /\ opt'.last_optimization_wr = opt.last_optimization_wr
             /\ opt'.last_optimization_changes = opt.last_optimization_changes
             /\ opt'.last_trade_count = opt.last_trade_count]_vars

C17_Witness ==
    /\ last_call.op = "run_optimization"
    /\ opt.result.status = "SKIPPED"
    /\ GetPerformanceSummary(opt).total_trades = min_trades - 1
    /\ opt.lost >= 3

\* C18: a run rolls back exactly when the previous run left a win rate and
\* changes, the win rate is now at least 3.0 points lower, and at least two
\* terminal trades have completed since the previous run.
C18_RollbackExactlyWhen ==
    [][RanOptimization =>
          (opt'.result.kind = "ROLLBACK" <=>
              /\ opt.last_optimization_wr # NoWr
              /\ opt.last_optimization_changes # <<>>
              /\ WrDropAtLeast3(opt.last_optimization_wr, BuildTradePool(opt).win_rate)
              /\ GetPerformanceSummary(opt).total_trades - opt.last_trade_count >= 2)]_vars

\* C19: in a cycle where rollback fires, every parameter the previous run
\* changed is back at the value it had before that run, every other
\* parameter is untouched, and the log grows by one ROLLBACK entry per
\* reverted parameter.
C19_RollbackWritesOnlyReversions ==
    [][(RanOptimization /\ opt'.result.kind = "ROLLBACK") =>
          LET prev == opt.last_optimization_changes
              changed == {prev[k].param : k \in DOMAIN prev}
          IN  /\ \A p \in changed : opt'.params[p] = opt.prev_params[p]
              /\ \A p \in ParamNames \ changed : opt'.params[p] = opt.params[p]
              /\ Len(opt'.log) = Len(opt.log) + Len(prev)
              /\ SubSeq(opt'.log, 1, Len(opt.log)) = opt.log
              /\ \A k \in DOMAIN prev :
                    LET entry == opt'.log[Len(opt.log) + k]
                    IN  /\ entry.rollback
                        /\ entry.param = prev[k].param
                        /\ entry.old = opt.params[prev[k].param]
                        /\ entry.new = opt.prev_params[prev[k].param]]_vars

C19_Witness ==
    /\ last_call.op = "run_optimization"
    /\ opt.result.kind = "ROLLBACK"
    /\ Len(opt.result.changes) = 2
    /\ opt.params = ICT_PARAMS
    /\ opt.log # <<>> /\ opt.log[1].new # opt.log[1].old

\* C20: when a cycle that rolled back ends, the rollback state is empty, and
\* the cycle that follows it does not roll back.
C20_NoChainedRollback ==
    [][/\ (RanOptimization /\ opt'.result.kind = "ROLLBACK")
            => /\ opt'.last_optimization_wr = NoWr
               /\ opt'.last_optimization_changes = <<>>
       /\ (RanOptimization /\ opt.result.kind = "ROLLBACK")
            => opt'.result.kind # "ROLLBACK"]_vars

InBounds(param, value) ==
    PARAM_REGISTRY[param].min_b <= value /\ value <= PARAM_REGISTRY[param].max_b

C22_CycleChangesLimited ==
    [][RanOptimization =>
          LET written == SubSeq(opt'.log, Len(opt.log) + 1, Len(opt'.log))
          IN  /\ Len(written) <= MAX_CHANGES_PER_CYCLE
              /\ Len(opt'.result.changes) = Len(written)
              /\ \A j, k \in DOMAIN written :
                    written[j].param = written[k].param => j = k
              /\ \A k \in DOMAIN written :
                    Cardinality({j \in DOMAIN written :
                                    Group(written[j]) = Group(written[k])}) <= 2
              /\ Cardinality({p \in ParamNames : opt'.params[p] # opt.params[p]})
                    <= MAX_CHANGES_PER_CYCLE]_vars

C22_Witness ==
    /\ last_call.op = "run_optimization"
    /\ opt.result.kind = "NORMAL"
    /\ Len(opt.result.changes) = MAX_CHANGES_PER_CYCLE
    /\ Cardinality({k \in DOMAIN opt.result.changes :
                        Group(opt.result.changes[k]) = "poi"}) = 2
    /\ opt.params.poi_max_distance_pct = ICT_PARAMS.poi_max_distance_pct
    /\ opt.params.default_sl_pct = ICT_PARAMS.default_sl_pct
    /\ opt.params.displacement_min_size_pct # ICT_PARAMS.displacement_min_size_pct

\* C23: after enforce_bounds_on_startup every stored registry parameter is
\* within its bounds: a value that was outside is at its default, a value
\* that was inside is unchanged, and a second call in a row resets nothing
\* and returns 0.
C23_StartupBounds ==
    [][last_call'.op = "enforce_bounds_on_startup" =>
          /\ \A p \in ParamNames :
                /\ opt'.params[p] # None => InBounds(p, opt'.params[p])
                /\ opt'.params[p] = (IF opt.params[p] # None /\ ~InBounds(p, opt.params[p])
                                         THEN ICT_PARAMS[p] ELSE opt.params[p])
          /\ last_call'.price =
                Cardinality({p \in ParamNames :
                                opt.params[p] # None /\ ~InBounds(p, opt.params[p])})
          /\ last_call.op = "enforce_bounds_on_startup"
                => last_call'.price = 0 /\ opt'.params = opt.params]_vars

C23_Witness ==
    /\ last_call.op = "enforce_bounds_on_startup"
    /\ last_call.price = 2
    /\ opt.params.displacement_min_body_ratio = ICT_PARAMS.displacement_min_body_ratio
    /\ opt.params.swing_lookback = ICT_PARAMS.swing_lookback
    /\ opt.params.fvg_min_size_pct = PARAM_REGISTRY.fvg_min_size_pct.max_b
    /\ opt.params.default_sl_pct = None

\* C24: the parameters an iteration works with are one consistent snapshot
\* of the Parameter Store: with a commit of several parameters running at
\* the same time, a completed load holds the store as it stood between two
\* commits, all old values or all new ones, never a mixture.
C24_ConsistentSnapshot ==
    strategy.to_load = <<>> => strategy.params \in strategy.consistent

\* C25: the trade-state map has a single writer: a step that changes it is a
\* check_open_trades tick (or the recovery at startup), and process_signal
\* and check_watchlist with its _open_trade leave it as it was.
C25_TradeStateSingleWriter ==
    [][/\ trade_state' # trade_state => last_call'.op = "check_open_trades"
       /\ last_call'.op \in {"process_signal", "check_watchlist"}
            => trade_state' = trade_state]_vars

C25_Witness ==
    /\ last_call.op = "check_watchlist"
    /\ DOMAIN trade_state # {}
    /\ \E i \in DOMAIN signals :
          /\ signals[i].status = "ACTIVE"
          /\ i = last_call.id \/ i = Len(signals)
          /\ i \notin DOMAIN trade_state

\* Progress of the price from the entry towards the target, against a
\* percentage.
ProgressAtLeast(s, price, percent) ==
    IF s.direction = "LONG"
        THEN (price - s.entry_price) * 100 >= percent * (s.take_profit - s.entry_price)
    ELSE (s.entry_price - price) * 100 >= percent * (s.entry_price - s.take_profit)

\* The state dict a tick finds for signal i.
StateOf(i) == IF i \in DOMAIN trade_state THEN trade_state[i] ELSE DefaultState

\* A check_open_trades tick that looked at an ACTIVE signal and left it open.
ManagedTick ==
    /\ last_call'.op = "check_open_trades"
    /\ last_call'.kind = "ACTIVE"
    /\ signals'[last_call'.id].status = "ACTIVE"

\* C26: a tick that finds progress of at least 0.60 and breakeven not yet
\* moved sets breakeven_moved and the breakeven stop at entry * 1.002 (0.998
\* for a SHORT); at lower progress breakeven is not moved.
C26_BreakevenAt60 ==
    [][(ManagedTick /\ ~StateOf(last_call'.id).breakeven_moved) =>
          LET i == last_call'.id
              s == signals[i]
          IN  IF ProgressAtLeast(s, last_call'.price, 60)
                  THEN /\ trade_state'[i].breakeven_moved
                       /\ trade_state'[i].breakeven_sl =
                              (IF s.direction = "LONG" THEN (s.entry_price * 1002) \div 1000
                               ELSE (s.entry_price * 998) \div 1000)
              ELSE ~trade_state'[i].breakeven_moved]_vars

\* C27: a tick sets or moves the trailing stop only at progress of at least
\* 0.75; a trailing stop it sets is at least entry + 0.50 * (current - entry)
\* for a LONG (at most entry - 0.50 * (entry - current) for a SHORT); and the
\* effective stop is the maximum of the base, breakeven and trailing stops
\* for a LONG, the minimum for a SHORT.
C27_TrailingAt75 ==
    [][ManagedTick =>
          LET i == last_call'.id
              s == signals[i]
              price == last_call'.price
              after == trade_state'[i]
              stops == {s.stop_loss} \cup ({after.breakeven_sl, after.trailing_sl} \ {0})
          IN  /\ after.trailing_sl # StateOf(i).trailing_sl
                    => /\ ProgressAtLeast(s, price, 75)
                       /\ IF s.direction = "LONG"
                              THEN after.trailing_sl * 2 >= s.entry_price * 2
                                                            + (price - s.entry_price)
                          ELSE after.trailing_sl * 2 <= s.entry_price * 2
                                                        - (s.entry_price - price)
              /\ last_eff'[i] \in stops
              /\ \A stop \in stops : IF s.direction = "LONG" THEN stop <= last_eff'[i]
                                      ELSE stop >= last_eff'[i]]_vars

\* C28: _open_trade persists no signal whose entry, stop or target is zero
\* or missing, whose stop distance is outside [min_sl_distance_pct,
\* max_sl_distance_pct], or whose target is on the wrong side of the stop.
C28_OpenTradeValidatesLevels ==
    \A i \in DOMAIN signals :
        LET s == signals[i]
        IN  /\ s.entry_price # 0 /\ s.stop_loss # 0 /\ s.take_profit # 0
            /\ min_sl_distance_pct * s.entry_price
                    <= 1000 * Abs(s.entry_price - s.stop_loss)
            /\ 1000 * Abs(s.entry_price - s.stop_loss)
                    <= max_sl_distance_pct * s.entry_price
            /\ IF s.direction = "LONG" THEN s.take_profit > s.stop_loss
               ELSE s.take_profit < s.stop_loss

\* C29: after a tick that takes a signal to WON, LOST or CANCELLED (by
\* take-profit, stop-loss, age or sanity check) the trade-state map has no
\* entry for that signal.
C29_NoStateAfterClose ==
    [][\A i \in DOMAIN signals :
          (/\ last_call'.op = "check_open_trades" /\ last_call'.id = i
           /\ signals[i].status = "ACTIVE"
           /\ IsTerminal(signals'[i]))
          => i \notin DOMAIN trade_state']_vars

\* C30: once the terminal status of a signal has been written, no write of
\* the ACTIVE phase follows for it: the tick that closes it does not write
\* its stop-loss after the status, and no later step changes its row.
C30_NoWriteAfterTerminal ==
    [][\A i \in DOMAIN signals :
          /\ IsTerminal(signals[i]) => signals'[i] = signals[i]
          /\ (signals[i].status = "ACTIVE" /\ IsTerminal(signals'[i]))
                => signals'[i].stop_loss = signals[i].stop_loss]_vars

\* C31: a trade opened with its levels on the correct sides (LONG: sl < entry
\* < tp, SHORT mirrored) is never closed as CANCELLED by check_open_trades
\* because of its own stop management, whatever the price path.
C31_NeverCancelledByOwnStop ==
    [][\A i \in DOMAIN signals :
          (/\ last_call'.op = "check_open_trades" /\ last_call'.id = i
           /\ signals[i].status = "ACTIVE")
          => signals'[i].status # "CANCELLED"]_vars

\* C32: a watchlist entry is PROMOTED only if a signal was opened for it: the
\* check_watchlist step that promotes an entry persists a new signal, also
\* when _open_trade meets the concurrency cap, the direction cap, an open
\* signal of the symbol or the cooldown.
C32_PromotedHasSignal ==
    [][\A i \in DOMAIN watchlist :
          (/\ last_call'.op = "check_watchlist" /\ last_call'.id = i
           /\ watchlist[i].status = "WATCHING"
           /\ watchlist'[i].status = "PROMOTED")
          => /\ Len(signals') = Len(signals) + 1
             /\ signals'[Len(signals')].symbol = watchlist[i].symbol]_vars

\* C33: when the last two 15m closes are both more than 1.2% beyond the POI
\* zone on the adverse side (LONG: below zone_low, SHORT: above zone_high),
\* the watchlist tick that looks at the WATCHING entry sets it to EXPIRED and
\* opens no signal for it.
C33_BrokenPoiExpires ==
    [][\A i \in DOMAIN watchlist :
          (/\ last_call'.op = "check_watchlist" /\ last_call'.id = i
           /\ last_call'.kind # "same_candle"
           /\ watchlist[i].status = "WATCHING"
           /\ PoiInvalidated(trig'.poi, trig'.prev_close, trig'.current_price))
          => /\ watchlist'[i].status = "EXPIRED"
             /\ signals' = signals]_vars

\* C34: a run that passes the minimum-trades check with a win rate of 0 and at
\* least 3 losses raises displacement_min_body_ratio and fvg_min_size_pct by
\* the emergency step and returns without the normal candidate selection.
C34_EmergencyPreempts ==
    [][(/\ last_call'.op = "run_optimization"
        /\ ~TooFewTrades(GetPerformanceSummary(opt).total_trades)
        /\ BuildTradePool(opt).win_rate.won = 0
        /\ BuildTradePool(opt).losers >= 3)
       => /\ opt'.result.kind # "NORMAL"
          /\ \E k \in DOMAIN opt'.result.changes :
                /\ opt'.result.changes[k].param = "displacement_min_body_ratio"
                /\ opt'.result.changes[k].new > opt'.result.changes[k].old
          /\ \E k \in DOMAIN opt'.result.changes :
                /\ opt'.result.changes[k].param = "fvg_min_size_pct"
                /\ opt'.result.changes[k].new > opt'.result.changes[k].old]_vars

\* C35: every committed change that is not a rollback moves its parameter by
\* at most 10% of the old value: |new - old| <= 10% * |old|, integer-typed
\* parameters included (after the coercion to int).
C35_ChangeWithinTenPercent ==
    \A k \in DOMAIN opt.log :
        ~opt.log[k].rollback
            => 10 * Abs(opt.log[k].new - opt.log[k].old) <= Abs(opt.log[k].old)

\* The pullback a single 1h candle shows: its move against the bias, as a
\* wick or as a body.
Pullback1h(candle, bias) ==
    IF bias = "LONG"
        THEN Max2(Min2(candle.open, candle.close) - candle.low, candle.open - candle.close)
    ELSE Max2(candle.high - Max2(candle.open, candle.close), candle.close - candle.open)

\* C36: a fired trigger is emitted as WATCH exactly when, over the last six
\* 1h candles, at least 5 are in the bias direction, the aggregate move is at
\* least 3 x ATR(1h) and no single candle shows a pullback of 0.4 x ATR(1h) or
\* more; in every other case it is emitted as SIGNAL.
C36_WatchIffOverextended ==
    trig.called
        => LET recent == trig.df_1h
               same_dir == Cardinality({i \in DOMAIN recent :
                               IF trig.bias = "LONG"
                               THEN recent[i].close > recent[i].open
                               ELSE recent[i].close < recent[i].open})
               total_move == IF trig.bias = "LONG" THEN recent[6].close - recent[1].low
                             ELSE recent[1].high - recent[6].close
           IN  /\ trig.out.action \in {"SIGNAL", "WATCH"}
               /\ (trig.out.action = "WATCH")
                    <=> (/\ same_dir >= 5
                         /\ total_move >= 3 * Atr
                         /\ \A i \in DOMAIN recent :
                               10 * Pullback1h(recent[i], trig.bias) < 4 * Atr)

\* C37: the 4h obstacle guard cancels a decision only when the bias came from
\* the 1h fallback (4h structure NEUTRAL); a decision whose bias was derived
\* from the 4h structure itself is never cancelled by it, whatever its quality.
C37_GuardOnlyOnFallback ==
    (/\ trig.called
     /\ DetectStructure(trig.swings_4h.highs, trig.swings_4h.lows).bias # "NEUTRAL")
        => /\ ~trig.blocked
           /\ trig.out.action = "SIGNAL"

\* C38: no displacement returned by _detect_displacement contains, as its
\* first, second or third candle, a candle whose high - low range exceeds
\* 3 x ATR.
C38_NoVolatileCandleInDisplacement ==
    (trig.called /\ trig.out.found)
        => \A k \in trig.out.start_index..trig.out.end_index :
              Range(trig.df[k]) <= 3 * Atr

MitigationRank(mitigated) ==
    IF mitigated = "FRESH" THEN 0 ELSE IF mitigated = "PARTIAL" THEN 1 ELSE 2

\* C39: as closed candles are appended to a frame, the mitigation state of a
\* given FVG only moves forward along FRESH -> PARTIAL -> FULL, and an FVG
\* that is FULL is never again returned as a candidate.
C39_MitigationMonotone ==
    [][\A i \in 2..(Len(trig.df) - 1) :
          GapAt(trig.df, i).type # "NONE"
            => /\ MitigationRank(Mitigation(trig'.df, i))
                    >= MitigationRank(Mitigation(trig.df, i))
               /\ \A f \in trig.fvgs : \A g \in trig'.fvgs :
                     f.index = i /\ g.index = i
                        => MitigationRank(g.mitigated) >= MitigationRank(f.mitigated)
               /\ Mitigation(trig.df, i) = "FULL"
                    => \A g \in trig'.fvgs : g.index # i]_vars

\* An FVG, still young enough to be returned, that was PARTIAL on the frame
\* before the last candle and is FULL with it.
C39_Witness ==
    /\ Len(trig.df) >= 6
    /\ \E i \in Max2(2, Len(trig.df) - FvgMaxAge)..(Len(trig.df) - 2) :
        /\ GapAt(trig.df, i).type # "NONE"
        /\ Mitigation(SubSeq(trig.df, 1, Len(trig.df) - 1), i) = "PARTIAL"
        /\ \E f \in FindFvg(SubSeq(trig.df, 1, Len(trig.df) - 1), FvgMaxAge) :
              f.index = i
        /\ Mitigation(trig.df, i) = "FULL"
        /\ \A g \in trig.fvgs : g.index # i

\* C40: on a stop-loss close, whenever the realized pnl% at the current price
\* is more than 0.5 points worse than the pnl% implied by the effective stop
\* (a profitable breakeven or trailing stop included), the recorded pnl% is
\* the stop-implied pnl% - 0.5 and WON / LOST is decided from it.
C40_SlippageClamp ==
    [][\A i \in DOMAIN signals :
          LET s == signals[i]
              price == last_call'.price
              implied == PnlPct(s.direction, s.entry_price, last_eff'[i])
          IN  (/\ last_call'.op = "check_open_trades" /\ last_call'.id = i
               /\ s.status = "ACTIVE"
               /\ signals'[i].status \in {"WON", "LOST"}
               /\ ~AgeExceeded(s, now)
               /\ ~ProgressAtLeast(s, price, 100)
               /\ PnlPct(s.direction, s.entry_price, price) < implied - 500)
              => /\ signals'[i].pnl_pct = implied - 500
                 /\ signals'[i].status = WinOrLoss(implied - 500)]_vars

====
